---- MODULE Spec2Model ----
(***************************************************************************)
(* Model of the PDF redaction subsystem of the ATS repository:             *)
(*   src/js/pdf-manual-masking.js  PdfManualMasking, the manual selection  *)
(*                                 session and the Rasterizing Redactor    *)
(*   src/js/pdf-masking.js         PdfMasking: extraction, matching and    *)
(*                                 the Overlay Redactor                    *)
(*   src/js/storage.js             Storage.uploadFile, deleteFile          *)
(*   src/supabase/functions/process-pdf/index.ts  containsSalaryInfo       *)
(*                                                                         *)
(* Conventions                                                             *)
(*  - A file is a number f > 0; it has NumPages(f) pages.  0 is null.      *)
(*  - Zoom scales are held multiplied by 4 (1.5 is 6, the step 0.25 is 1). *)
(*  - Every async function is cut at its awaits.  Consecutive awaits with  *)
(*    no read or write of this.state / the DOM between them are one step.  *)
(*  - A user-interface handler can run only while its DOM element exists   *)
(*    (modal = TRUE) and, for a button, while it is not disabled.          *)
(*  - openMaskingModal is called by code outside this module.  Under Spec  *)
(*    the caller opens a session only when no session is open and nothing  *)
(*    of an earlier session is still in flight (Quiescent).                *)
(*  - One applyMaskingAndUpload is modelled in flight at a time (a single  *)
(*    `commit` slot).                                                      *)
(***************************************************************************)
EXTENDS Integers, Sequences, FiniteSets, TLC

\* ---------------------------------------------------------------- bounds
MaxPages == 2       \* files have 1..MaxPages pages
MaxRegions == 2     \* regions kept in the session's list
MaxRenders == 1     \* renderPage calls in flight
ZoomSpan == 1       \* zoom steps explored above the initial scale
MaxItems == 2       \* matched items handed to applyMasking
MaxFragments == 3   \* fragments given to findSalaryItems
MaxUploads == 2     \* calls of Storage.uploadFile
MaxOverlap == 2     \* renderPage calls in flight when renders overlap

\* ------------------------------------------------------ program constants
InitialScale == 6   \* scale: 1.5
ScaleStep == 1      \* 0.25
MinScale == 2       \* 0.5
MaxScale == 12      \* 3
MinSize == 10       \* minimum width and height of a region
RenderScale == 8    \* 2.0, the raster scale of renderPageAsImage
RowTolerance == 20  \* the same-row tolerance of findSalaryItems

Files == 1..MaxPages
NumPages(f) == f

\* Pointer positions (clientX - rect.left, clientY - rect.top) of the model:
\* where a drag starts and where it ends.
DownPoints == {<<0, 0>>, <<20, 30>>}
UpPoints == {<<0, 0>>, <<5, 30>>, <<20, 30>>}

Min(a, b) == IF a < b THEN a ELSE b
Abs(a) == IF a < 0 THEN -a ELSE a

VARIABLES
    state,      \* PdfManualMasking.state
    onComplete, \* PdfManualMasking.onComplete is set
    modal,      \* the #pdfMaskingModal element exists
    ui,         \* disabled flags of #prevPage, #nextPage, #applyMasking
    load,       \* openMaskingModal in flight: [pc, file]
    renders,    \* renderPage calls in flight
    commit,     \* applyMaskingAndUpload in flight
    delivered,  \* calls of the onComplete callback registered by the last open
    alert,      \* the alert() shown by the last step, "none" when it showed none
    overlay,    \* last applyMasking call: [pages, items, out]
    scan,       \* findSalaryItems in progress: its arguments and locals
    canvas,     \* what #pdfCanvas was last sized and painted for
    mask,       \* maskSalaryInfo or checkSalaryInfo in flight
    upload,     \* Storage.uploadFile in flight
    store,      \* the bucket and the attachments table
    edge        \* process-pdf: the patterns' lastIndex and the last call

\* the variables of the automatic masking and of the upload
pipeline == <<mask, upload, store>>

vars == <<state, onComplete, modal, ui, load, renders, commit,
          delivered, alert, overlay, scan, canvas, mask, upload, store, edge>>

\* ----------------------------------------------------------------- state
InitState ==
    [pdfDoc |-> 0, currentPage |-> 1, totalPages |-> 0, scale |-> InitialScale,
     selectedRegions |-> <<>>, isDrawing |-> FALSE, startX |-> 0, startY |-> 0,
     originalFile |-> 0, arrayBuffer |-> 0]

\* what a commit remembers of the session it was invoked on (the fields
\* of this.state other than the drag in progress)
Snapshot(st) ==
    [pdfDoc |-> st.pdfDoc, arrayBuffer |-> st.arrayBuffer,
     originalFile |-> st.originalFile, currentPage |-> st.currentPage,
     scale |-> st.scale, selectedRegions |-> st.selectedRegions]

NoUi ==
    [prevDisabled |-> FALSE, nextDisabled |-> FALSE, applyDisabled |-> FALSE,
     boxes |-> <<>>]
NoLoad == [pc |-> "idle", file |-> 0]
NoCommit ==
    [pc |-> "idle", pageNum |-> 0, pagesToFlatten |-> {}, newPdfDoc |-> <<>>,
     src |-> 0, sizeDoc |-> 0, painted |-> <<>>,
     invoked |-> Snapshot(InitState)]
NoOverlay == [pages |-> 0, items |-> <<>>, out |-> <<>>]
NoCanvas == [page |-> 0, scale |-> 0]
NoMask ==
    [pc |-> "idle", fn |-> "none", caller |-> "none", file |-> 0,
     pageNum |-> 0, allItems |-> <<>>, itemsToMask |-> <<>>, queue |-> <<>>,
     rects |-> <<>>, glyphs |-> <<>>, error |-> "none", result |-> <<>>]
NoUpload ==
    [pc |-> "idle", file |-> 0, maskSalary |-> FALSE, fileToUpload |-> 0,
     wasMasked |-> FALSE, maskedCount |-> 0, path |-> 0, result |-> <<>>]
NoStore == [blobs |-> {}, attachments |-> {}, uploads |-> 0]
NoScan ==
    [pc |-> "idle", textItems |-> <<>>, i |-> 0, itemsToMask |-> <<>>,
     processedIndices |-> {}]

\* process-pdf before its first call: every pattern's lastIndex is 0
NoEdge ==
    [lastIndex |-> <<0, 0, 0>>, called |-> FALSE, text |-> <<>>,
     result |-> FALSE, before |-> <<>>]

Init ==
    /\ state = InitState
    /\ onComplete = FALSE
    /\ modal = FALSE
    /\ ui = NoUi
    /\ load = NoLoad
    /\ renders = <<>>
    /\ commit = NoCommit
    /\ delivered = <<>>
    /\ alert = "none"
    /\ overlay = NoOverlay
    /\ scan = NoScan
    /\ canvas = NoCanvas
    /\ mask = NoMask
    /\ upload = NoUpload
    /\ store = NoStore
    /\ edge = NoEdge


\* mutant of Splice: splice(index), which removes the rest of the array
SpliceRest(s, index) == SubSeq(s, 1, index - 1)

\* Array.prototype.splice(index, 1), index counted from 1
Splice(s, index) ==
    SubSeq(s, 1, index - 1) \o SubSeq(s, index + 1, Len(s))

\* A session can be opened: none is open and nothing is in flight.
Quiescent ==
    /\ ~modal
    /\ load.pc = "idle"
    /\ renders = <<>>
    /\ commit.pc = "idle"

\* updateUI: the disabled flags computed from the state
UpdateUI(dom, st) ==
    [dom EXCEPT !.prevDisabled = st.currentPage <= 1,
                !.nextDisabled = st.currentPage >= st.totalPages,
                !.applyDisabled = Len(st.selectedRegions) = 0]

\* selectedRegions.findIndex by page, x and y: the first index that matches
\* (indices count from 1 here)
FindIndex(regions, region) ==
    CHOOSE k \in 1..Len(regions) :
        /\ regions[k].page = region.page
        /\ regions[k].x = region.x
        /\ regions[k].y = region.y
        /\ \A j \in 1..(k - 1) :
               ~(/\ regions[j].page = region.page
                 /\ regions[j].x = region.x
                 /\ regions[j].y = region.y)

\* the boxes renderSelectionOverlay writes into #selectionOverlay: one for
\* each region of the current page, in list order, showing the region and
\* carrying removeRegion(globalIdx) in its onclick
SelectionBoxes(st) ==
    LET currentPageRegions ==
            SelectSeq(st.selectedRegions, LAMBDA r : r.page = st.currentPage)
    IN [n \in 1..Len(currentPageRegions) |->
           [region |-> currentPageRegions[n],
            globalIdx |-> FindIndex(st.selectedRegions, currentPageRegions[n])]]

\* renderSelectionOverlay
RenderSelectionOverlay(dom, st) == [dom EXCEPT !.boxes = SelectionBoxes(st)]

\* mutant of Released: closeModal forgets to empty the region list
ReleasedHandlesOnly(st) ==
    [st EXCEPT !.pdfDoc = 0, !.arrayBuffer = 0, !.originalFile = 0]

\* closeModal: the fields it resets
Released(st) ==
    [st EXCEPT !.pdfDoc = 0, !.selectedRegions = <<>>, !.arrayBuffer = 0,
               !.originalFile = 0]

\* the canvas after renderPage has sized it for the viewport of a page at
\* a scale and has started page.render on it
Sized(pageNum, scale) == [page |-> pageNum, scale |-> scale]

\* renderPage up to its first await: this.state.pdfDoc.getPage(pageNum)
NewRender(pageNum, first) ==
    [pageNum |-> pageNum, pc |-> "getPage", scale |-> 0, first |-> first]

\* ------------------------------------------------------ openMaskingModal
\* openMaskingModal up to its first await: file.arrayBuffer()
Opening(f) ==
    /\ state' = [state EXCEPT !.originalFile = f, !.selectedRegions = <<>>,
                              !.currentPage = 1]
    /\ onComplete' = TRUE
    /\ load' = [pc |-> "arrayBuffer", file |-> f]
    /\ delivered' = <<>>
    /\ alert' = "none"
    /\ overlay' = NoOverlay
    /\ UNCHANGED <<edge, scan, canvas, pipeline, modal, ui, renders, commit>>

\* openMaskingModal called while nothing of an earlier session is left
OpenMaskingModal(f) ==
    /\ Quiescent
    /\ Opening(f)

\* openMaskingModal called after a session was closed while the commit of
\* that session is still in flight
OpenMaskingModalEarly(f) ==
    /\ ~modal
    /\ load.pc = "idle"
    /\ renders = <<>>
    /\ commit.pc # "idle"
    /\ Opening(f)

\* file.arrayBuffer() resolved
LoadBytesDone ==
    /\ load.pc = "arrayBuffer"
    /\ state' = [state EXCEPT !.arrayBuffer = load.file]
    /\ load' = [load EXCEPT !.pc = "getDocument"]
    /\ alert' = "none"
    /\ UNCHANGED <<edge, scan, canvas, pipeline, onComplete, modal, ui, renders, commit, delivered,
                   overlay>>

\* file.arrayBuffer() or getDocument rejected: the catch block
LoadFailed ==
    /\ load.pc \in {"arrayBuffer", "getDocument"}
    /\ load' = NoLoad
    /\ alert' = "load_error"
    /\ UNCHANGED <<edge, scan, canvas, pipeline, state, onComplete, modal, ui, renders, commit,
                   delivered, overlay>>

\* getDocument resolved; createModal, bindEvents, updateUI; renderPage starts
LoadDocDone ==
    /\ load.pc = "getDocument"
    /\ state' = [state EXCEPT !.pdfDoc = load.file,
                              !.totalPages = NumPages(load.file)]
    /\ modal' = TRUE
    /\ ui' = UpdateUI(NoUi, state')
    /\ renders' = Append(renders, NewRender(state.currentPage, TRUE))
    /\ canvas' = NoCanvas
    /\ load' = NoLoad
    /\ alert' = "none"
    /\ UNCHANGED <<edge, scan, pipeline, onComplete, commit, delivered, overlay>>

\* ------------------------------------------------------------ renderPage
\* getPage resolved for the i-th call in flight: the viewport is taken at
\* the current scale and page.render starts.  Without the modal the canvas
\* lookup yields null and the call throws (into openMaskingModal's catch
\* when it awaits the call).
RenderGotPage(i) ==
    /\ i \in 1..Len(renders)
    /\ renders[i].pc = "getPage"
    /\ IF modal
       THEN /\ renders' = [renders EXCEPT ![i].pc = "render",
                                          ![i].scale = state.scale]
            /\ canvas' = Sized(renders[i].pageNum, state.scale)
            /\ alert' = "none"
       ELSE /\ renders' = Splice(renders, i)
            /\ alert' = IF renders[i].first THEN "load_error" ELSE "none"
            /\ UNCHANGED canvas
    /\ UNCHANGED <<edge, scan, pipeline, state, onComplete, modal, ui, load, commit,
                   delivered, overlay>>

\* page.render rejected
RenderFailed(i) ==
    /\ i \in 1..Len(renders)
    /\ renders[i].pc = "render"
    /\ renders' = Splice(renders, i)
    /\ alert' = IF renders[i].first THEN "load_error" ELSE "none"
    /\ UNCHANGED <<edge, scan, canvas, pipeline, state, onComplete, modal, ui, load, commit, delivered,
                   overlay>>

\* page.render resolved: renderSelectionOverlay, updateUI
RenderDone(i) ==
    /\ i \in 1..Len(renders)
    /\ renders[i].pc = "render"
    /\ renders' = Splice(renders, i)
    /\ IF modal
       THEN /\ ui' = UpdateUI(RenderSelectionOverlay(ui, state), state)
            /\ alert' = "none"
       ELSE /\ ui' = ui
            /\ alert' = IF renders[i].first THEN "load_error" ELSE "none"
    /\ UNCHANGED <<edge, scan, canvas, pipeline, state, onComplete, modal, load, commit, delivered, overlay>>

\* ------------------------------------------------------ goToPage, setZoom
\* goToPage, with fewer than `limit` renderPage calls in flight
GoToPageWithin(pageNum, limit) ==
    IF pageNum < 1 \/ pageNum > state.totalPages
    THEN /\ alert' = "none"
         /\ UNCHANGED <<edge, scan, canvas, pipeline, state, onComplete, modal, ui, load, renders,
                        commit, delivered, overlay>>
    ELSE /\ Len(renders) < limit
         /\ state' = [state EXCEPT !.currentPage = pageNum]
         /\ renders' = Append(renders, NewRender(pageNum, FALSE))
         /\ alert' = "none"
         /\ UNCHANGED <<edge, scan, canvas, pipeline, onComplete, modal, ui, load, commit,
                        delivered, overlay>>

\* mutant of GoToPage: the range test is missing
GoToPageUnchecked(pageNum) ==
    /\ Len(renders) < MaxRenders
    /\ state' = [state EXCEPT !.currentPage = pageNum]
    /\ renders' = Append(renders, NewRender(pageNum, FALSE))
    /\ alert' = "none"
    /\ UNCHANGED <<edge, scan, canvas, pipeline, onComplete, modal, ui, load, commit,
                   delivered, overlay>>

\* goToPage
GoToPage(pageNum) == GoToPageWithin(pageNum, MaxRenders)


\* #prevPage.onclick
PrevPage ==
    /\ modal
    /\ ~ui.prevDisabled
    /\ GoToPage(state.currentPage - 1)

\* #nextPage.onclick
NextPage ==
    /\ modal
    /\ ~ui.nextDisabled
    /\ GoToPage(state.currentPage + 1)

\* mutant of Zoomed: the regions are re-recorded at the new scale
ZoomedRescaling(st, scale) ==
    [st EXCEPT !.scale = scale,
               !.selectedRegions = [k \in 1..Len(@) |-> [@[k] EXCEPT !.scale = scale]]]

\* the state after setZoom's assignment
Zoomed(st, scale) == [st EXCEPT !.scale = scale]

\* setZoom, with fewer than `limit` renderPage calls in flight
SetZoomWithin(scale, limit) ==
    IF scale < MinScale \/ scale > MaxScale
    THEN /\ alert' = "none"
         /\ UNCHANGED <<edge, scan, canvas, pipeline, state, onComplete, modal, ui, load, renders,
                        commit, delivered, overlay>>
    ELSE /\ Len(renders) < limit
         /\ state' = Zoomed(state, scale)
         /\ renders' = Append(renders, NewRender(state.currentPage, FALSE))
         /\ alert' = "none"
         /\ UNCHANGED <<edge, scan, canvas, pipeline, onComplete, modal, ui, load, commit,
                        delivered, overlay>>

\* mutant of SetZoom: the range test is missing
SetZoomUnchecked(scale) ==
    /\ Len(renders) < MaxRenders
    /\ state' = Zoomed(state, scale)
    /\ renders' = Append(renders, NewRender(state.currentPage, FALSE))
    /\ alert' = "none"
    /\ UNCHANGED <<edge, scan, canvas, pipeline, onComplete, modal, ui, load, commit,
                   delivered, overlay>>

\* setZoom
SetZoom(scale) == SetZoomWithin(scale, MaxRenders)

\* #zoomIn.onclick
ZoomIn ==
    /\ modal
    /\ state.scale + ScaleStep <= InitialScale + ZoomSpan
    /\ SetZoom(state.scale + ScaleStep)

\* #zoomOut.onclick
ZoomOut ==
    /\ modal
    /\ state.scale - ScaleStep >= InitialScale
    /\ SetZoom(state.scale - ScaleStep)

\* #zoomIn.onclick, at any scale
ZoomInAnywhere ==
    /\ modal
    /\ SetZoom(state.scale + ScaleStep)

\* #zoomOut.onclick, at any scale
ZoomOutAnywhere ==
    /\ modal
    /\ SetZoom(state.scale - ScaleStep)

\* #prevPage.onclick while earlier renderPage calls are in flight
PrevPageOverlapping ==
    /\ modal
    /\ ~ui.prevDisabled
    /\ GoToPageWithin(state.currentPage - 1, MaxOverlap)

\* #nextPage.onclick while earlier renderPage calls are in flight
NextPageOverlapping ==
    /\ modal
    /\ ~ui.nextDisabled
    /\ GoToPageWithin(state.currentPage + 1, MaxOverlap)

\* #zoomIn.onclick while earlier renderPage calls are in flight
ZoomInOverlapping ==
    /\ modal
    /\ state.scale + ScaleStep <= InitialScale + ZoomSpan
    /\ SetZoomWithin(state.scale + ScaleStep, MaxOverlap)

\* #zoomOut.onclick while earlier renderPage calls are in flight
ZoomOutOverlapping ==
    /\ modal
    /\ state.scale - ScaleStep >= InitialScale
    /\ SetZoomWithin(state.scale - ScaleStep, MaxOverlap)

\* -------------------------------------------------------------- drawing
\* onMouseDown, onTouchStart
OnMouseDown(p) ==
    /\ modal
    /\ state' = [state EXCEPT !.isDrawing = TRUE, !.startX = p[1],
                              !.startY = p[2]]
    /\ alert' = "none"
    /\ UNCHANGED <<edge, scan, canvas, pipeline, onComplete, modal, ui, load, renders, commit,
                   delivered, overlay>>

\* mutant of BigEnough: one dimension suffices
BigEnoughEither(width, height) == width >= MinSize \/ height >= MinSize

\* the minimum size check of onMouseUp
BigEnough(width, height) == width >= MinSize /\ height >= MinSize

\* the region onMouseUp builds from the drag
DragRegion(st, p) ==
    [page |-> st.currentPage,
     x |-> Min(st.startX, p[1]),
     y |-> Min(st.startY, p[2]),
     width |-> Abs(p[1] - st.startX),
     height |-> Abs(p[2] - st.startY),
     scale |-> st.scale]

\* onMouseUp, onmouseleave, onTouchEnd
OnMouseUp(p) ==
    /\ modal
    /\ state.isDrawing
    /\ LET r == DragRegion(state, p) IN
       IF BigEnough(r.width, r.height)
       THEN /\ Len(state.selectedRegions) < MaxRegions
            /\ state' = [state EXCEPT !.isDrawing = FALSE,
                             !.selectedRegions = Append(@, r)]
            /\ ui' = RenderSelectionOverlay(ui, state')
       ELSE /\ state' = [state EXCEPT !.isDrawing = FALSE]
            /\ ui' = ui
    /\ alert' = "none"
    /\ UNCHANGED <<edge, scan, canvas, pipeline, onComplete, modal, load, renders, commit,
                   delivered, overlay>>

\* removeRegion, called from the region list and the overlay boxes
RemoveRegion(index) ==
    /\ modal
    /\ index \in 1..Len(state.selectedRegions)
    /\ state' = [state EXCEPT !.selectedRegions = Splice(@, index)]
    /\ ui' = UpdateUI(RenderSelectionOverlay(ui, state'), state')
    /\ alert' = "none"
    /\ UNCHANGED <<edge, scan, canvas, pipeline, onComplete, modal, load, renders, commit,
                   delivered, overlay>>

\* the onclick of the n-th box of #selectionOverlay
ClickOverlayBox(n) ==
    /\ n \in 1..Len(ui.boxes)
    /\ RemoveRegion(ui.boxes[n].globalIdx)

\* clearAllRegions, the operator confirming
ClearAllRegions ==
    /\ modal
    /\ state' = [state EXCEPT !.selectedRegions = <<>>]
    /\ ui' = UpdateUI(RenderSelectionOverlay(ui, state'), state')
    /\ alert' = "none"
    /\ UNCHANGED <<edge, scan, canvas, pipeline, onComplete, modal, load, renders, commit,
                   delivered, overlay>>

\* #closeMaskingModal.onclick, #cancelMasking.onclick
CloseModal ==
    /\ modal
    /\ modal' = FALSE
    /\ state' = Released(state)
    /\ ui' = NoUi
    /\ canvas' = NoCanvas
    /\ alert' = "none"
    /\ UNCHANGED <<edge, scan, pipeline, onComplete, load, renders, commit, delivered,
                   overlay>>


\* ------------------------------------------- applyMaskingAndUpload: commit
\* mutant of NoRegions: the guard is missing
NoRegionsNever(st) == FALSE

\* the guard of applyMaskingAndUpload
NoRegions(st) == Len(st.selectedRegions) = 0

\* mutant of PagesToFlatten: only the page of the first region
PagesToFlattenFirst(regions) == {regions[1].page}

\* applyMaskingToPdf: [...new Set(selectedRegions.map(r => r.page))]
PagesToFlatten(regions) == {regions[k].page : k \in 1..Len(regions)}

\* mutant of NeedsFlatten: every page is flattened
NeedsFlattenAll(pages, pageNum) == TRUE

\* applyMaskingToPdf: pagesToFlatten.includes(pageNum)
NeedsFlatten(pages, pageNum) == pageNum \in pages

\* renderPageAsImage: selectedRegions.filter(r => r.page === pageNum)
PageRegions(regions, pageNum) ==
    SelectSeq(regions, LAMBDA r : r.page = pageNum)

\* the fraction n / d in lowest terms, as <<numerator, denominator>>
Ratio(n, d) ==
    LET RECURSIVE GCD(_, _)
        GCD(a, b) == IF b = 0 THEN a ELSE GCD(b, a % b)
    IN <<n \div GCD(n, d), d \div GCD(n, d)>>

\* renderPageAsImage: scaleFactor = renderScale / region.scale
ScaleFactor(region) == Ratio(RenderScale, region.scale)

\* a coordinate times a scale factor
Times(v, factor) == Ratio(v * factor[1], factor[2])

\* mutant of FillRect: the session's current scale in place of the scale
\* recorded in the region
FillRectAtCurrentScale(region) ==
    [x |-> Ratio(region.x * RenderScale, state.scale),
     y |-> Ratio(region.y * RenderScale, state.scale),
     width |-> Ratio(region.width * RenderScale, state.scale),
     height |-> Ratio(region.height * RenderScale, state.scale)]

\* renderPageAsImage: the rectangle fillRect receives for a region
FillRect(region) ==
    [x |-> Times(region.x, ScaleFactor(region)),
     y |-> Times(region.y, ScaleFactor(region)),
     width |-> Times(region.width, ScaleFactor(region)),
     height |-> Times(region.height, ScaleFactor(region))]

\* a page of the output: an embedded full-page image of page `page` of
\* document `doc`, rendered at RenderScale, on which the regions `painted`
\* were filled as the rectangles `filled`, on a page sized like the page
\* of document `sizeDoc`
ImagePage(doc, page, painted, sizeDoc) ==
    [kind |-> "image", doc |-> doc, page |-> page, painted |-> painted,
     filled |-> [k \in 1..Len(painted) |-> FillRect(painted[k])],
     sizeDoc |-> sizeDoc]

\* a page of the output: page `page` of document `doc` copied by copyPages
CopiedPage(doc, page) ==
    [kind |-> "copy", doc |-> doc, page |-> page, painted |-> <<>>,
     filled |-> <<>>, sizeDoc |-> doc]

\* the catch block of applyMaskingAndUpload; without the modal the button
\* lookup yields null and the block itself throws after the alert
Catch ==
    /\ alert' = "apply_error"
    /\ ui' = IF modal THEN [ui EXCEPT !.applyDisabled = FALSE] ELSE ui
    /\ commit' = NoCommit

\* mutant of LoopDone: pageNum < totalPages as the loop condition
LoopDoneEarly(pageNum, totalPages) == pageNum >= totalPages

\* the loop of applyMaskingToPdf is over: not pageNum <= totalPages
LoopDone(pageNum, totalPages) == pageNum > totalPages

\* the head of the loop of applyMaskingToPdf with pageNum = pn and the
\* output pages `doc`, up to the next await
LoopHead(pn, doc) ==
    IF LoopDone(pn, state.totalPages)
    THEN /\ commit' = [commit EXCEPT !.pc = "save", !.pageNum = pn,
                                     !.newPdfDoc = doc, !.painted = <<>>]
         /\ alert' = "none"
         /\ UNCHANGED <<edge, scan, canvas, pipeline, ui>>
    ELSE IF NeedsFlatten(commit.pagesToFlatten, pn)
    THEN IF state.pdfDoc = 0
         THEN Catch
         ELSE /\ commit' = [commit EXCEPT !.pc = "render", !.pageNum = pn,
                                  !.newPdfDoc = doc, !.src = state.pdfDoc,
                                  !.painted = <<>>]
              /\ alert' = "none"
              /\ UNCHANGED <<edge, scan, canvas, pipeline, ui>>
    ELSE IF state.arrayBuffer = 0
         THEN Catch
         ELSE /\ commit' = [commit EXCEPT !.pc = "copy", !.pageNum = pn,
                                  !.newPdfDoc = doc, !.src = state.arrayBuffer,
                                  !.painted = <<>>]
              /\ alert' = "none"
              /\ UNCHANGED <<edge, scan, canvas, pipeline, ui>>

\* #applyMasking.onclick: applyMaskingAndUpload up to PDFDocument.create()
ApplyMaskingAndUpload ==
    /\ modal
    /\ ~ui.applyDisabled
    /\ commit.pc = "idle"
    /\ IF NoRegions(state)
       THEN /\ alert' = "select_region"
            /\ UNCHANGED <<edge, scan, canvas, pipeline, ui, commit>>
       ELSE /\ ui' = [ui EXCEPT !.applyDisabled = TRUE]
            /\ commit' = [NoCommit EXCEPT !.pc = "create",
                    !.pagesToFlatten = PagesToFlatten(state.selectedRegions),
                    !.invoked = Snapshot(state)]
            /\ alert' = "none"
    /\ UNCHANGED <<edge, scan, canvas, pipeline, state, onComplete, modal, load, renders, delivered,
                   overlay>>

\* PDFDocument.create() resolved: the loop starts at page 1
CommitCreated ==
    /\ commit.pc = "create"
    /\ LoopHead(1, <<>>)
    /\ UNCHANGED <<edge, scan, canvas, pipeline, state, onComplete, modal, load, renders, delivered,
                   overlay>>

\* renderPageAsImage: getPage and page.render resolved (the document has the
\* page); the regions of the page are painted and the canvas is handed to
\* toBlob
CommitRendered ==
    /\ commit.pc = "render"
    /\ commit.pageNum <= NumPages(commit.src)
    /\ commit' = [commit EXCEPT !.pc = "toBlob",
            !.painted = PageRegions(state.selectedRegions, commit.pageNum)]
    /\ alert' = "none"
    /\ UNCHANGED <<edge, scan, canvas, pipeline, state, onComplete, modal, ui, load, renders,
                   delivered, overlay>>

\* mutant of CommitRenderFailed: the page that failed to render is copied
\* from the original instead and the loop goes on
CommitRenderFailedFallback ==
    /\ commit.pc = "render"
    /\ commit' = [commit EXCEPT !.pc = "copy", !.src = state.arrayBuffer]
    /\ alert' = "none"
    /\ UNCHANGED <<edge, scan, canvas, pipeline, state, onComplete, modal, ui, load, renders, delivered,
                   overlay>>

\* renderPageAsImage: getPage or page.render rejected
CommitRenderFailed ==
    /\ commit.pc = "render"
    /\ Catch
    /\ UNCHANGED <<edge, scan, canvas, pipeline, state, onComplete, modal, load, renders, delivered,
                   overlay>>

\* toBlob called back with a blob, embedPng resolved; getPage is called on
\* the session's document for the page size
CommitEmbedded ==
    /\ commit.pc = "toBlob"
    /\ IF state.pdfDoc = 0
       THEN Catch
       ELSE /\ commit' = [commit EXCEPT !.pc = "getPage",
                                        !.sizeDoc = state.pdfDoc]
            /\ alert' = "none"
            /\ UNCHANGED <<edge, scan, canvas, pipeline, ui>>
    /\ UNCHANGED <<edge, scan, canvas, pipeline, state, onComplete, modal, load, renders, delivered,
                   overlay>>

\* toBlob called back with null: blob.arrayBuffer() throws inside the
\* callback and the promise of renderPageAsImage is never settled, so the
\* call of applyMaskingAndUpload never runs again
CommitBlobNull ==
    /\ commit.pc = "toBlob"
    /\ commit' = NoCommit
    /\ alert' = "none"
    /\ UNCHANGED <<edge, scan, canvas, pipeline, state, onComplete, modal, ui, load, renders,
                   delivered, overlay>>

\* getPage resolved: the image page is added, the loop goes on; getPage
\* rejects for a page the document does not have
CommitImageAdded ==
    /\ commit.pc = "getPage"
    /\ IF commit.pageNum > NumPages(commit.sizeDoc)
       THEN Catch
       ELSE LoopHead(commit.pageNum + 1,
                     Append(commit.newPdfDoc,
                            ImagePage(commit.src, commit.pageNum,
                                      commit.painted, commit.sizeDoc)))
    /\ UNCHANGED <<edge, scan, canvas, pipeline, state, onComplete, modal, load, renders, delivered,
                   overlay>>

\* PDFDocument.load and copyPages resolved: the copy is added, the loop goes
\* on; copyPages throws for a page the loaded document does not have
CommitCopied ==
    /\ commit.pc = "copy"
    /\ IF commit.pageNum > NumPages(commit.src)
       THEN Catch
       ELSE LoopHead(commit.pageNum + 1,
                     Append(commit.newPdfDoc,
                            CopiedPage(commit.src, commit.pageNum)))
    /\ UNCHANGED <<edge, scan, canvas, pipeline, state, onComplete, modal, load, renders, delivered,
                   overlay>>

\* what onComplete receives: the File (its name and its pages) and
\* maskedCount; `invoked` remembers the region list the commit started with
Delivery(st, pages, invoked) ==
    [name |-> st.originalFile, pages |-> pages,
     maskedCount |-> Len(st.selectedRegions),
     invoked |-> invoked.selectedRegions]

\* newPdfDoc.save() resolved: the File is built, closeModal, onComplete
CommitSaved ==
    /\ commit.pc = "save"
    /\ IF state.originalFile = 0
       THEN /\ Catch
            /\ UNCHANGED <<edge, scan, canvas, pipeline, state, modal, delivered>>
       ELSE /\ modal' = FALSE
            /\ state' = Released(state)
            /\ ui' = NoUi
            /\ delivered' = IF onComplete
                            THEN Append(delivered,
                                        Delivery(state, commit.newPdfDoc,
                                                 commit.invoked))
                            ELSE delivered
            /\ canvas' = NoCanvas
            /\ commit' = NoCommit
            /\ alert' = "none"
    /\ UNCHANGED <<edge, scan, pipeline, onComplete, load, renders, overlay>>


\* ------------------------------------------ PdfMasking.applyMasking
Max(a, b) == IF a > b THEN a ELSE b

\* page.getSize().height of page k of the document given to applyMasking
PageHeight(k) == 700 + 100 * k

\* the geometry of the fragments of the model
Geoms == {[x |-> 50, y |-> 100, width |-> 40, height |-> 12],
          [x |-> 10, y |-> 20, width |-> 8, height |-> 6]}

\* matched items: a page number (also outside the document) and a geometry
Items ==
    {[page |-> p, x |-> g.x, y |-> g.y, width |-> g.width, height |-> g.height] :
        p \in 0..(MaxPages + 1), g \in Geoms}

ItemLists == UNION {[1..n -> Items] : n \in 0..MaxItems}

\* mutant of MaskRect: the margin without the minimum size
MaskRectNoMinimum(item, h) ==
    [x |-> item.x - 2,
     y |-> (h - item.y - item.height) - 2,
     width |-> item.width + 4,
     height |-> item.height + 4]

\* the rectangle drawRectangle receives for an item on a page of height h
MaskRect(item, h) ==
    [x |-> item.x - 2,
     y |-> (h - item.y - item.height) - 2,
     width |-> Max(item.width + 4, 30),
     height |-> Max(item.height + 4, 14)]

\* itemsByPage[k]
ItemsOfPage(items, k) == SelectSeq(items, LAMBDA it : it.page = k)

\* the pages of the saved document: page k of the input with the rectangles
\* drawn on it; an item whose page is not a page of the document draws nothing
ApplyMasking(numPages, items) ==
    [k \in 1..numPages |->
        [page |-> k,
         rects |-> [j \in 1..Len(ItemsOfPage(items, k)) |->
                        MaskRect(ItemsOfPage(items, k)[j], PageHeight(k))]]]

\* applyMasking shares no state with the manual session: one call is
\* explored before the first session is opened and one after a delivery
RunApplyMasking(numPages, items) ==
    /\ ~onComplete \/ delivered # <<>>
    /\ Quiescent
    /\ overlay = NoOverlay
    /\ overlay' = [pages |-> numPages, items |-> items,
                   out |-> ApplyMasking(numPages, items)]
    /\ alert' = "none"
    /\ UNCHANGED <<edge, scan, canvas, pipeline, state, onComplete, modal, ui, load, renders,
                   commit, delivered>>

\* ----------------------------------------- PdfMasking.findSalaryItems
\* A text is a sequence of tokens:
\*   "kw"     a salary keyword (연봉, 급여, salary, ...)
\*   "num"    a run of digits, possibly with commas (3,500)
\*   "comma"  a comma standing alone
\*   "manwon" the unit 만원
\*   "won"    the unit 원
\*   "sep"    white space
\*   "word"   any other word
KeywordText == <<"kw">>
KeywordAmountText == <<"kw", "sep", "num", "manwon">>
AmountUnitText == <<"num", "manwon">>
BareAmountText == <<"num">>
WonKeywordText == <<"num", "won", "sep", "kw">>
CommaText == <<"comma">>
PlainText == <<"word">>

Texts ==
    {KeywordText, KeywordAmountText, AmountUnitText, BareAmountText,
     WonKeywordText, CommaText, PlainText}

\* the character class [\d,] (and [\d,\.]) as tokens
DigitsOrComma == {"num", "comma"}

\* text[from..to] is white space only
OnlySep(text, from, to) == \A k \in from..to : text[k] = "sep"

\* SALARY_PATTERNS[0] and [2]: a keyword, separators, then [\d,\.]+
KeywordAmountPattern(text) ==
    \E a, b \in 1..Len(text) :
        /\ a < b
        /\ text[a] = "kw"
        /\ text[b] \in DigitsOrComma
        /\ OnlySep(text, a + 1, b - 1)

\* SALARY_PATTERNS[1]: [\d,]+ \s* (만원|천만원)
AmountUnitPattern(text) ==
    \E a, b \in 1..Len(text) :
        /\ a < b
        /\ text[a] \in DigitsOrComma
        /\ text[b] = "manwon"
        /\ OnlySep(text, a + 1, b - 1)

\* some pattern of SALARY_PATTERNS tests true on the text
MatchesPattern(text) ==
    KeywordAmountPattern(text) \/ AmountUnitPattern(text)

\* SALARY_KEYWORDS.some(kw => text.toLowerCase().includes(kw))
HasKeyword(text) == \E k \in 1..Len(text) : text[k] = "kw"

\* /[\d,]+/.test(text)
HasNumber(text) == \E k \in 1..Len(text) : text[k] \in DigitsOrComma

\* /만원|천만|원|만/.test(text)
HasMoneyUnit(text) == \E k \in 1..Len(text) : text[k] \in {"manwon", "won"}

\* /^[\d,\.]+\s*(?:만원|천만원|만|원)?$/.test(text.trim())
IsLikelyAmount(text) ==
    \E a \in 1..Len(text) :
        /\ \A k \in 1..a : text[k] \in DigitsOrComma
        /\ \/ OnlySep(text, a + 1, Len(text)) /\ a = Len(text)
           \/ /\ a < Len(text)
              /\ text[Len(text)] \in {"manwon", "won"}
              /\ OnlySep(text, a + 1, Len(text) - 1)

\* hasNumber && (hasMoneyUnit || isLikelyAmount)
AmountLike(text) ==
    HasNumber(text) /\ (HasMoneyUnit(text) \/ IsLikelyAmount(text))

\* the rows and pages of the fragments of the model: 0 and 10 are on one
\* row, 10 and 30 are exactly the tolerance apart
FragmentRows == {0, 10, 30}
FragmentPages == {1, 2}

Fragments ==
    {[text |-> t, page |-> p, y |-> y] :
        t \in Texts, p \in FragmentPages, y \in FragmentRows}

FragmentLists == UNION {[1..n -> Fragments] : n \in 0..MaxFragments}

\* mutant of Processed: the processed-index set is never consulted
ProcessedNever(indices, k) == FALSE

\* processedIndices.has(k)
Processed(indices, k) == k \in indices

\* mutant of IsSameRow: only fragments at the very same y are on one row
IsSameRowExact(nearItem, item) == nearItem.y = item.y

\* Math.abs(nearItem.y - item.y) < 20
IsSameRow(nearItem, item) == Abs(nearItem.y - item.y) < RowTolerance

\* the inner loop claims textItems[j] for the keyword item textItems[k]
Nearby(textItems, processed, k, j) ==
    /\ ~Processed(processed, j)
    /\ j # k
    /\ textItems[j].page = textItems[k].page
    /\ IsSameRow(textItems[j], textItems[k])
    /\ AmountLike(textItems[j].text)

\* mutant of NearbyIndices: the inner loop runs from the last item down
NearbyIndicesDescending(textItems, processed, k) ==
    LET up == SelectSeq([j \in 1..Len(textItems) |-> j],
                        LAMBDA j : Nearby(textItems, processed, k, j))
    IN [n \in 1..Len(up) |-> up[Len(up) + 1 - n]]

\* the indices the inner loop claims, in the order it claims them
NearbyIndices(textItems, processed, k) ==
    SelectSeq([j \in 1..Len(textItems) |-> j],
              LAMBDA j : Nearby(textItems, processed, k, j))

\* {...item, reason}; index is the position of the item in textItems
Masked(textItems, k, reason) ==
    [text |-> textItems[k].text, page |-> textItems[k].page,
     y |-> textItems[k].y, reason |-> reason, index |-> k]

\* mutant of Claim: the keywords are tested before the patterns
ClaimKeywordFirst(text) ==
    IF HasKeyword(text) THEN "keyword_match"
    ELSE IF MatchesPattern(text) THEN "pattern_match"
    ELSE "none"

\* what the body of the outer loop decides for a text: the patterns are
\* tested first, the keywords only when no pattern matched
Claim(text) ==
    IF MatchesPattern(text) THEN "pattern_match"
    ELSE IF HasKeyword(text) THEN "keyword_match"
    ELSE "none"

\* the items one pass of the outer loop pushes for index k
Pushed(textItems, processed, k) ==
    IF Processed(processed, k) THEN <<>>
    ELSE IF Claim(textItems[k].text) = "pattern_match"
    THEN <<Masked(textItems, k, "pattern_match")>>
    ELSE IF Claim(textItems[k].text) = "keyword_match"
    THEN <<Masked(textItems, k, "keyword_match")>> \o
         [n \in 1..Len(NearbyIndices(textItems, processed \cup {k}, k)) |->
             Masked(textItems,
                    NearbyIndices(textItems, processed \cup {k}, k)[n],
                    "nearby_number")]
    ELSE <<>>

\* findSalaryItems(textItems) is called
FindSalaryItems(textItems) ==
    /\ scan.pc = "idle"
    /\ scan' = [pc |-> "loop", textItems |-> textItems, i |-> 1,
                itemsToMask |-> <<>>, processedIndices |-> {}]
    /\ UNCHANGED <<edge, canvas, pipeline, state, onComplete, modal, ui, load,
                   renders, commit, delivered, alert, overlay>>

\* one pass of the outer loop (i counts from 1)
FindSalaryItemsPass ==
    /\ scan.pc = "loop"
    /\ scan.i <= Len(scan.textItems)
    /\ LET pushed == Pushed(scan.textItems, scan.processedIndices, scan.i)
       IN scan' = [scan EXCEPT
                !.i = @ + 1,
                !.itemsToMask = @ \o pushed,
                !.processedIndices =
                    @ \cup {pushed[n].index : n \in 1..Len(pushed)}]
    /\ UNCHANGED <<edge, canvas, pipeline, state, onComplete, modal, ui, load,
                   renders, commit, delivered, alert, overlay>>

\* the loop is over: return itemsToMask
FindSalaryItemsReturn ==
    /\ scan.pc = "loop"
    /\ scan.i > Len(scan.textItems)
    /\ scan' = [scan EXCEPT !.pc = "done"]
    /\ UNCHANGED <<edge, canvas, pipeline, state, onComplete, modal, ui, load,
                   renders, commit, delivered, alert, overlay>>

\* ------------------------- PdfMasking.maskSalaryInfo, checkSalaryInfo
\* An item of page.getTextContent(): its string as tokens, tx[4] as x,
\* tx[5] as ty, its width and its height (0 when pdf.js reports none).
KeywordItem ==
    [str |-> KeywordText, x |-> 50, ty |-> 600, width |-> 40, height |-> 12]
AmountItem ==
    [str |-> AmountUnitText, x |-> 120, ty |-> 600, width |-> 8, height |-> 6]
KeywordAmountItem ==
    [str |-> KeywordAmountText, x |-> 50, ty |-> 500, width |-> 90,
     height |-> 0]
PlainItem ==
    [str |-> PlainText, x |-> 50, ty |-> 400, width |-> 30, height |-> 12]
BlankItem ==
    [str |-> <<"sep">>, x |-> 10, ty |-> 600, width |-> 5, height |-> 12]

\* what the pages of the documents of the model hold: no text, text
\* without salary information, a keyword with its amount on one row, white
\* space followed by a keyword with its amount in one fragment
PageContents ==
    {<<>>, <<PlainItem>>, <<KeywordItem, AmountItem>>,
     <<BlankItem, KeywordAmountItem>>}

\* a document: the text content of each of its pages
Documents == UNION {[1..n -> PageContents] : n \in 1..MaxPages}

\* a File: PdfMasking.isPdf of it, its pages, and the pages pdf-lib saved
\* over them (none for a file that was not masked)
OriginalFile(isPdf, pages) == [isPdf |-> isPdf, pages |-> pages, out |-> <<>>]

\* the PDF files of the model, and the files given to uploadFile: these
\* and a file that is not a PDF
PdfFiles == {OriginalFile(TRUE, d) : d \in Documents}

UploadableFiles == PdfFiles \cup {OriginalFile(FALSE, <<>>)}

\* item.height || 12
DefaultHeight == 12

\* item.str && item.str.trim()
NotBlank(str) == \E k \in 1..Len(str) : str[k] # "sep"

\* extractTextWithPositions: the object pushed for an item of page pageNum
Extracted(item, pageNum) ==
    [text |-> item.str, page |-> pageNum, x |-> item.x,
     y |-> PageHeight(pageNum) - item.ty, width |-> item.width,
     height |-> IF item.height = 0 THEN DefaultHeight ELSE item.height]

\* extractTextWithPositions: the objects pushed for a page
ExtractedPage(items, pageNum) ==
    LET kept == SelectSeq(items, LAMBDA item : NotBlank(item.str))
    IN [k \in 1..Len(kept) |-> Extracted(kept[k], pageNum)]

\* findSalaryItems(textItems): the outer loop from index i on
RECURSIVE ScanFrom(_, _, _, _)
ScanFrom(textItems, i, itemsToMask, processedIndices) ==
    IF i > Len(textItems) THEN itemsToMask
    ELSE LET pushed == Pushed(textItems, processedIndices, i)
         IN ScanFrom(textItems, i + 1, itemsToMask \o pushed,
                     processedIndices \cup
                         {pushed[n].index : n \in 1..Len(pushed)})

\* findSalaryItems(textItems); the items keep the geometry of their
\* fragments ({...item, reason})
FoundSalaryItems(textItems) ==
    LET found == ScanFrom(textItems, 1, <<>>, {})
    IN [n \in 1..Len(found) |->
           [text |-> found[n].text, page |-> found[n].page,
            reason |-> found[n].reason,
            x |-> textItems[found[n].index].x, y |-> found[n].y,
            width |-> textItems[found[n].index].width,
            height |-> textItems[found[n].index].height]]

\* applyMasking: the items in the order the loops visit them, page by page
\* (Object.entries lists integer keys in ascending order); an item whose
\* page the document does not have is skipped
RECURSIVE DrawOrder(_, _, _)
DrawOrder(items, pageNum, numPages) ==
    IF pageNum > numPages THEN <<>>
    ELSE ItemsOfPage(items, pageNum) \o DrawOrder(items, pageNum + 1, numPages)

\* the pages pdf-lib saves: on each page the rectangles drawn on it, and
\* for each rectangle whether the glyph was drawn on it
SavedPages(numPages, rects, glyphs) ==
    [k \in 1..numPages |->
        LET on == SelectSeq([j \in 1..Len(rects) |-> j],
                            LAMBDA j : rects[j].page = k)
        IN [page |-> k,
            rects |-> [j \in 1..Len(on) |-> rects[on[j]].rect],
            glyphs |-> [j \in 1..Len(on) |-> glyphs[on[j]]]]]

\* new File([maskedPdfBytes], file.name, {type: 'application/pdf'})
MaskedFile(file, saved) == [isPdf |-> TRUE, pages |-> file.pages, out |-> saved]

\* a call of maskSalaryInfo or checkSalaryInfo starts: file.arrayBuffer()
NewMask(fn, caller, file) ==
    [pc |-> "arrayBuffer", fn |-> fn, caller |-> caller, file |-> file,
     pageNum |-> 0, allItems |-> <<>>, itemsToMask |-> <<>>, queue |-> <<>>,
     rects |-> <<>>, glyphs |-> <<>>, error |-> "none", result |-> <<>>]

\* the call is over by a throw out of maskSalaryInfo, or by the error
\* result of checkSalaryInfo, whose catch block returns
Thrown(m, error) ==
    IF m.fn = "maskSalaryInfo"
    THEN [m EXCEPT !.pc = "threw", !.error = error]
    ELSE [m EXCEPT !.pc = "returned", !.error = error,
                   !.result = [hasSalaryInfo |-> FALSE, count |-> 0,
                               items |-> <<>>]]

\* maskSalaryInfo(file) called by other code than Storage.uploadFile, with
\* or without the two libraries loaded
MaskSalaryInfo(file, libraries) ==
    /\ mask.pc \in {"idle", "returned", "threw"}
    /\ upload.pc # "mask"
    /\ mask' = IF libraries THEN NewMask("maskSalaryInfo", "page", file)
               ELSE Thrown(NewMask("maskSalaryInfo", "page", file), "library")
    /\ UNCHANGED <<edge, scan, canvas, upload, store, state, onComplete, modal, ui,
                   load, renders, commit, delivered, alert, overlay>>

\* checkSalaryInfo(file)
CheckSalaryInfo(file) ==
    /\ mask.pc \in {"idle", "returned", "threw"}
    /\ upload.pc # "mask"
    /\ mask' = NewMask("checkSalaryInfo", "page", file)
    /\ UNCHANGED <<edge, scan, canvas, upload, store, state, onComplete, modal, ui,
                   load, renders, commit, delivered, alert, overlay>>

\* file.arrayBuffer() resolved: extractTextWithPositions calls getDocument
MaskBytesDone ==
    /\ mask.pc = "arrayBuffer"
    /\ mask' = [mask EXCEPT !.pc = "getDocument"]
    /\ UNCHANGED <<edge, scan, canvas, upload, store, state, onComplete, modal, ui,
                   load, renders, commit, delivered, alert, overlay>>

\* file.arrayBuffer() rejected
MaskBytesFailed ==
    /\ mask.pc = "arrayBuffer"
    /\ mask' = Thrown(mask, "bytes")
    /\ UNCHANGED <<edge, scan, canvas, upload, store, state, onComplete, modal, ui,
                   load, renders, commit, delivered, alert, overlay>>

\* getDocument resolved: the page loop starts at page 1
ExtractLoaded ==
    /\ mask.pc = "getDocument"
    /\ mask' = [mask EXCEPT !.pc = "getPage", !.pageNum = 1]
    /\ UNCHANGED <<edge, scan, canvas, upload, store, state, onComplete, modal, ui,
                   load, renders, commit, delivered, alert, overlay>>

\* getDocument rejected: the document cannot be loaded
ExtractLoadFailed ==
    /\ mask.pc = "getDocument"
    /\ mask' = Thrown(mask, "load")
    /\ UNCHANGED <<edge, scan, canvas, upload, store, state, onComplete, modal, ui,
                   load, renders, commit, delivered, alert, overlay>>

\* mutant of Extraction: maskSalaryInfo calls applyMasking also when
\* nothing was found
ExtractionAlwaysMasks(m, allItems) ==
    LET itemsToMask == FoundSalaryItems(allItems) IN
    IF m.fn = "checkSalaryInfo"
    THEN [m EXCEPT !.pc = "returned", !.allItems = allItems,
                   !.itemsToMask = itemsToMask,
                   !.result = [hasSalaryInfo |-> Len(itemsToMask) > 0,
                               count |-> Len(itemsToMask),
                               items |-> <<>>]]
    ELSE [m EXCEPT !.pc = "load", !.allItems = allItems,
                   !.itemsToMask = itemsToMask]

\* what the caller of extractTextWithPositions does with the items: both
\* run findSalaryItems; checkSalaryInfo returns the preview, maskSalaryInfo
\* returns the file itself when nothing was found and calls applyMasking
\* (PDFDocument.load) otherwise
Extraction(m, allItems) ==
    LET itemsToMask == FoundSalaryItems(allItems) IN
    IF m.fn = "checkSalaryInfo"
    THEN [m EXCEPT !.pc = "returned", !.allItems = allItems,
                   !.itemsToMask = itemsToMask,
                   !.result = [hasSalaryInfo |-> Len(itemsToMask) > 0,
                               count |-> Len(itemsToMask),
                               items |-> [n \in 1..Len(itemsToMask) |->
                                   [text |-> itemsToMask[n].text,
                                    page |-> itemsToMask[n].page,
                                    reason |-> itemsToMask[n].reason]]]]
    ELSE IF Len(itemsToMask) = 0
    THEN [m EXCEPT !.pc = "returned", !.allItems = allItems,
                   !.itemsToMask = itemsToMask,
                   !.result = [file |-> m.file, masked |-> FALSE,
                               maskedCount |-> 0]]
    ELSE [m EXCEPT !.pc = "load", !.allItems = allItems,
                   !.itemsToMask = itemsToMask]

\* the page loop of extractTextWithPositions goes on with page pageNum and
\* the items allItems, or is over
PageLoop(m, pageNum, allItems) ==
    IF pageNum <= Len(m.file.pages)
    THEN [m EXCEPT !.pc = "getPage", !.pageNum = pageNum,
                   !.allItems = allItems]
    ELSE Extraction([m EXCEPT !.pageNum = pageNum], allItems)

\* getPage and getTextContent resolved for the page: its items are pushed
ExtractPageDone ==
    /\ mask.pc = "getPage"
    /\ mask' = PageLoop(mask, mask.pageNum + 1,
                        mask.allItems \o
                            ExtractedPage(mask.file.pages[mask.pageNum],
                                          mask.pageNum))
    /\ UNCHANGED <<edge, scan, canvas, upload, store, state, onComplete, modal, ui,
                   load, renders, commit, delivered, alert, overlay>>

\* getPage or getTextContent rejected for the page: nothing in
\* extractTextWithPositions catches it
ExtractPageFailed ==
    /\ mask.pc = "getPage"
    /\ mask' = Thrown(mask, "page")
    /\ UNCHANGED <<edge, scan, canvas, upload, store, state, onComplete, modal, ui,
                   load, renders, commit, delivered, alert, overlay>>

\* applyMasking: the rectangle of the item is drawn and embedFont is
\* awaited for it, or every item is done and save is awaited
NextItem(m) ==
    IF Len(m.glyphs) < Len(m.queue)
    THEN LET item == m.queue[Len(m.glyphs) + 1]
         IN [m EXCEPT !.pc = "embedFont",
                      !.rects = Append(@, [page |-> item.page,
                                           rect |-> MaskRect(item,
                                               PageHeight(item.page))])]
    ELSE [m EXCEPT !.pc = "save"]

\* PDFDocument.load resolved: the items are grouped by page
ApplyLoaded ==
    /\ mask.pc = "load"
    /\ mask' = NextItem([mask EXCEPT
                  !.queue = DrawOrder(mask.itemsToMask, 1,
                                      Len(mask.file.pages))])
    /\ UNCHANGED <<edge, scan, canvas, upload, store, state, onComplete, modal, ui,
                   load, renders, commit, delivered, alert, overlay>>

\* PDFDocument.load rejected
ApplyLoadFailed ==
    /\ mask.pc = "load"
    /\ mask' = Thrown(mask, "pdflib_load")
    /\ UNCHANGED <<edge, scan, canvas, upload, store, state, onComplete, modal, ui,
                   load, renders, commit, delivered, alert, overlay>>

\* embedFont resolved: the glyph is drawn on the rectangle
ApplyFontEmbedded ==
    /\ mask.pc = "embedFont"
    /\ mask' = NextItem([mask EXCEPT !.glyphs = Append(@, TRUE)])
    /\ UNCHANGED <<edge, scan, canvas, upload, store, state, onComplete, modal, ui,
                   load, renders, commit, delivered, alert, overlay>>

\* mutant of ApplyFontFailed: the error is not caught
ApplyFontFailedAborts ==
    /\ mask.pc = "embedFont"
    /\ mask' = Thrown(mask, "font")
    /\ UNCHANGED <<edge, scan, canvas, upload, store, state, onComplete, modal, ui,
                   load, renders, commit, delivered, alert, overlay>>

\* embedFont rejected or drawText threw: the catch block warns and the
\* loop goes on without the glyph
ApplyFontFailed ==
    /\ mask.pc = "embedFont"
    /\ mask' = NextItem([mask EXCEPT !.glyphs = Append(@, FALSE)])
    /\ UNCHANGED <<edge, scan, canvas, upload, store, state, onComplete, modal, ui,
                   load, renders, commit, delivered, alert, overlay>>

\* pdfDoc.save() resolved: maskSalaryInfo returns the masked File
ApplySaved ==
    /\ mask.pc = "save"
    /\ mask' = [mask EXCEPT !.pc = "returned",
                  !.result = [file |-> MaskedFile(mask.file,
                                  SavedPages(Len(mask.file.pages), mask.rects,
                                             mask.glyphs)),
                              masked |-> TRUE,
                              maskedCount |-> Len(mask.itemsToMask)]]
    /\ UNCHANGED <<edge, scan, canvas, upload, store, state, onComplete, modal, ui,
                   load, renders, commit, delivered, alert, overlay>>

\* pdfDoc.save() rejected
ApplySaveFailed ==
    /\ mask.pc = "save"
    /\ mask' = Thrown(mask, "save")
    /\ UNCHANGED <<edge, scan, canvas, upload, store, state, onComplete, modal, ui,
                   load, renders, commit, delivered, alert, overlay>>

\* ---------------------------------------------- Storage.uploadFile
\* the call returns {success: false, error}
Failure == [success |-> FALSE, wasMasked |-> FALSE, maskedCount |-> 0]

\* the storage upload of fileToUpload under a fresh path is awaited
Uploading(u, fileToUpload, wasMasked, maskedCount) ==
    [u EXCEPT !.pc = "upload", !.fileToUpload = fileToUpload,
              !.wasMasked = wasMasked, !.maskedCount = maskedCount,
              !.path = store.uploads + 1]

\* Storage.uploadFile(applicantId, file, visibility, maskSalary) called by
\* a user who is an administrator or not
UploadFile(file, maskSalary, isAdminOrAbove) ==
    /\ upload.pc \in {"idle", "done"}
    /\ mask.pc = "idle"
    /\ store.uploads < MaxUploads
    /\ store' = [store EXCEPT !.uploads = @ + 1]
    /\ IF ~isAdminOrAbove
       THEN /\ upload' = [NoUpload EXCEPT !.pc = "done", !.file = file,
                                          !.maskSalary = maskSalary,
                                          !.result = Failure]
            /\ UNCHANGED mask
       ELSE IF maskSalary /\ file.isPdf
       THEN /\ upload' = [NoUpload EXCEPT !.pc = "mask", !.file = file,
                                          !.maskSalary = maskSalary]
            /\ mask' = NewMask("maskSalaryInfo", "uploadFile", file)
       ELSE /\ upload' = Uploading([NoUpload EXCEPT !.file = file,
                                       !.maskSalary = maskSalary],
                                   file, FALSE, 0)
            /\ UNCHANGED mask
    /\ UNCHANGED <<edge, scan, canvas, state, onComplete, modal, ui,
                   load, renders, commit, delivered, alert, overlay>>

\* maskSalaryInfo returned to uploadFile
UploadMaskReturned ==
    /\ upload.pc = "mask"
    /\ mask.pc = "returned"
    /\ upload' = Uploading(upload, mask.result.file, mask.result.masked,
                           mask.result.maskedCount)
    /\ mask' = NoMask
    /\ UNCHANGED <<edge, scan, canvas, store, state, onComplete, modal, ui,
                   load, renders, commit, delivered, alert, overlay>>

\* mutant of UploadMaskThrew: the error of the masking ends the upload
UploadMaskThrewAborts ==
    /\ upload.pc = "mask"
    /\ mask.pc = "threw"
    /\ upload' = [upload EXCEPT !.pc = "done", !.result = Failure]
    /\ mask' = NoMask
    /\ UNCHANGED <<edge, scan, canvas, store, state, onComplete, modal, ui,
                   load, renders, commit, delivered, alert, overlay>>

\* maskSalaryInfo threw: uploadFile logs the error and goes on with the
\* original file
UploadMaskThrew ==
    /\ upload.pc = "mask"
    /\ mask.pc = "threw"
    /\ upload' = Uploading(upload, upload.file, FALSE, 0)
    /\ mask' = NoMask
    /\ UNCHANGED <<edge, scan, canvas, store, state, onComplete, modal, ui,
                   load, renders, commit, delivered, alert, overlay>>

\* storage.upload resolved without error: DB.createAttachment is awaited
UploadStored ==
    /\ upload.pc = "upload"
    /\ store' = [store EXCEPT
                   !.blobs = @ \cup {[path |-> upload.path,
                                      file |-> upload.fileToUpload]}]
    /\ upload' = [upload EXCEPT !.pc = "createAttachment"]
    /\ UNCHANGED <<edge, scan, canvas, mask, state, onComplete, modal, ui,
                   load, renders, commit, delivered, alert, overlay>>

\* storage.upload resolved with an error, or rejected
UploadStoreFailed ==
    /\ upload.pc = "upload"
    /\ upload' = [upload EXCEPT !.pc = "done", !.result = Failure]
    /\ UNCHANGED <<edge, scan, canvas, mask, store, state, onComplete, modal, ui,
                   load, renders, commit, delivered, alert, overlay>>

\* DB.createAttachment returned success: the row is in the table
UploadAttachmentCreated ==
    /\ upload.pc = "createAttachment"
    /\ store' = [store EXCEPT !.attachments = @ \cup {upload.path}]
    /\ upload' = [upload EXCEPT !.pc = "done",
                    !.result = [success |-> TRUE,
                                wasMasked |-> upload.wasMasked,
                                maskedCount |-> upload.maskedCount]]
    /\ UNCHANGED <<edge, scan, canvas, mask, state, onComplete, modal, ui,
                   load, renders, commit, delivered, alert, overlay>>

\* DB.createAttachment returned a failure: deleteFile(data.path) is awaited
UploadAttachmentFailed ==
    /\ upload.pc = "createAttachment"
    /\ upload' = [upload EXCEPT !.pc = "deleteFile"]
    /\ UNCHANGED <<edge, scan, canvas, mask, store, state, onComplete, modal, ui,
                   load, renders, commit, delivered, alert, overlay>>

\* deleteFile: storage.remove resolved without error; uploadFile throws the
\* error of the attachment
DeleteFileDone ==
    /\ upload.pc = "deleteFile"
    /\ store' = [store EXCEPT
                   !.blobs = {b \in @ : b.path # upload.path}]
    /\ upload' = [upload EXCEPT !.pc = "done", !.result = Failure]
    /\ UNCHANGED <<edge, scan, canvas, mask, state, onComplete, modal, ui,
                   load, renders, commit, delivered, alert, overlay>>

\* deleteFile: storage.remove failed; deleteFile returns {success: false},
\* which uploadFile does not read, and uploadFile throws the error of the
\* attachment
DeleteFileFailed ==
    /\ upload.pc = "deleteFile"
    /\ upload' = [upload EXCEPT !.pc = "done", !.result = Failure]
    /\ UNCHANGED <<edge, scan, canvas, mask, store, state, onComplete, modal, ui,
                   load, renders, commit, delivered, alert, overlay>>

\* ------------------------------------------- process-pdf: containsSalaryInfo
\* the texts given to containsSalaryInfo, as sequences of tokens: a Korean
\* keyword, an English keyword, a separator, digits, a comma, the units
\* 만원 and 원, one of 희망/예상/현재, and any other word
EdgeTexts ==
    {<<"kw", "sep", "num">>,
     <<"kw", "sep", "num", "manwon">>,
     <<"num", "manwon">>,
     <<"num", "comma", "num", "manwon", "sep", "hope">>,
     <<"salary", "sep", "num">>,
     <<"kw", "num", "sep", "kw", "num">>,
     <<"word", "sep", "num", "won">>,
     <<"word">>}

\* [\d,\.]+ and [\d,]+
EdgeDigits == {"num", "comma"}

\* a greedy run: the index of the last token of the longest run of tokens
\* of `set` that starts at index `from`, from - 1 when there is none
RECURSIVE RunEnd(_, _, _)
RunEnd(text, from, set) ==
    IF from <= Len(text) /\ text[from] \in set
    THEN RunEnd(text, from + 1, set)
    ELSE from - 1

\* SALARY_PATTERNS[0] and [1] matched at index s: the keyword, separators,
\* [\d,\.]+, \s* and an optional unit; the index of the last token of the
\* match, 0 when there is no match at s
KeywordMatchEnd(text, s, keyword, units) ==
    IF text[s] # keyword THEN 0
    ELSE LET a == RunEnd(text, s + 1, {"sep"})
             b == RunEnd(text, a + 1, EdgeDigits)
             c == RunEnd(text, b + 1, {"sep"})
         IN IF b = a THEN 0
            ELSE IF c + 1 <= Len(text) /\ text[c + 1] \in units
                 THEN c + 1
                 ELSE c

\* SALARY_PATTERNS[2] matched at index s: [\d,]+, \s*, 만원 or 천만원, \s*
\* and an optional 희망, 예상 or 현재
AmountMatchEnd(text, s) ==
    LET b == RunEnd(text, s, EdgeDigits)
        a == RunEnd(text, b + 1, {"sep"})
        c == RunEnd(text, a + 2, {"sep"})
    IN IF b < s \/ a + 1 > Len(text) THEN 0
       ELSE IF text[a + 1] # "manwon" THEN 0
       ELSE IF c + 1 <= Len(text) /\ text[c + 1] = "hope"
            THEN c + 1
            ELSE c

\* the p-th pattern of SALARY_PATTERNS matched at index s
PatternMatchEnd(p, text, s) ==
    CASE p = 1 -> KeywordMatchEnd(text, s, "kw", {"manwon", "won"})
      [] p = 2 -> KeywordMatchEnd(text, s, "salary", {"manwon", "won"})
      [] p = 3 -> AmountMatchEnd(text, s)

\* pattern.test(text) of a pattern with the g flag: the search starts at
\* lastIndex; a match leaves lastIndex at its end, a failure leaves 0
Test(p, text, lastIndex) ==
    LET starts == {s \in (lastIndex + 1)..Len(text) :
                      PatternMatchEnd(p, text, s) > 0}
    IN IF starts = {}
       THEN [found |-> FALSE, lastIndex |-> 0]
       ELSE LET s == CHOOSE s \in starts : \A t \in starts : s <= t
            IN [found |-> TRUE, lastIndex |-> PatternMatchEnd(p, text, s)]

\* the loop of containsSalaryInfo from the p-th pattern on: return true at
\* the first pattern that tests true, reset lastIndex after one that does not
RECURSIVE ContainsFrom(_, _, _)
ContainsFrom(text, p, lastIndex) ==
    IF p > Len(lastIndex)
    THEN [result |-> FALSE, lastIndex |-> lastIndex]
    ELSE LET t == Test(p, text, lastIndex[p])
         IN IF t.found
            THEN [result |-> TRUE,
                  lastIndex |-> [lastIndex EXCEPT ![p] = t.lastIndex]]
            ELSE ContainsFrom(text, p + 1, [lastIndex EXCEPT ![p] = 0])

\* containsSalaryInfo(text), called by processPdf for the content of a page
ContainsSalaryInfo(text) ==
    /\ edge' = LET r == ContainsFrom(text, 1, edge.lastIndex)
               IN [lastIndex |-> r.lastIndex, called |-> TRUE, text |-> text,
                   result |-> r.result, before |-> edge.text]
    /\ UNCHANGED <<scan, canvas, pipeline, state, onComplete, modal, ui, load,
                   renders, commit, delivered, alert, overlay>>

\* ------------------------------------------------------------------ Next
\* the session: opening, preview rendering, navigation, drawing, closing
Session ==
    \/ \E f \in Files : OpenMaskingModal(f)
    \/ LoadBytesDone
    \/ LoadFailed
    \/ LoadDocDone
    \/ \E i \in 1..Len(renders) : RenderGotPage(i)
    \/ \E i \in 1..Len(renders) : RenderFailed(i)
    \/ \E i \in 1..Len(renders) : RenderDone(i)
    \/ PrevPage
    \/ NextPage
    \/ \E p \in DownPoints : OnMouseDown(p)
    \/ \E p \in UpPoints : OnMouseUp(p)
    \/ \E i \in 1..MaxRegions : RemoveRegion(i)
    \/ ClearAllRegions
    \/ CloseModal

\* the commit
Commit ==
    \/ ApplyMaskingAndUpload
    \/ CommitCreated
    \/ CommitRendered
    \/ CommitRenderFailed
    \/ CommitEmbedded
    \/ CommitBlobNull
    \/ CommitImageAdded
    \/ CommitCopied
    \/ CommitSaved

\* the zoom buttons
Zoom ==
    \/ ZoomIn
    \/ ZoomOut

Overlay ==
    \E n \in 1..MaxPages, items \in ItemLists : RunApplyMasking(n, items)

\* Spec: sessions with commits, at the initial zoom, and applyMasking
Next == Session \/ Commit \/ Overlay

Spec == Init /\ [][Next]_vars

\* a session opened before the previous one has finished
Reopen ==
    \E f \in Files : OpenMaskingModalEarly(f)

\* SpecReopen: sessions with commits, the caller not waiting for the
\* commit of a closed session to finish; no navigation, no removal of
\* regions and no injected failure
NextReopen ==
    \/ \E f \in Files : OpenMaskingModal(f)
    \/ LoadBytesDone
    \/ LoadDocDone
    \/ \E i \in 1..Len(renders) : RenderGotPage(i)
    \/ \E i \in 1..Len(renders) : RenderDone(i)
    \/ \E p \in DownPoints : OnMouseDown(p)
    \/ \E p \in UpPoints : OnMouseUp(p)
    \/ CloseModal
    \/ ApplyMaskingAndUpload
    \/ CommitCreated
    \/ CommitRendered
    \/ CommitEmbedded
    \/ CommitImageAdded
    \/ CommitCopied
    \/ CommitSaved
    \/ Reopen

SpecReopen == Init /\ [][NextReopen]_vars

\* where the drags of SpecRaster end: the same rectangle of the page at
\* 150% and at 175%
RasterUpPoints == {<<24, 36>>, <<28, 42>>}

\* SpecRaster: a session on the first page with zoom changes and commits;
\* no navigation, no removal of regions and no injected failure
NextRaster ==
    \/ \E f \in Files : OpenMaskingModal(f)
    \/ LoadBytesDone
    \/ LoadDocDone
    \/ \E i \in 1..Len(renders) : RenderGotPage(i)
    \/ \E i \in 1..Len(renders) : RenderDone(i)
    \/ ZoomIn
    \/ ZoomOut
    \/ \E p \in DownPoints : OnMouseDown(p)
    \/ \E p \in RasterUpPoints : OnMouseUp(p)
    \/ ApplyMaskingAndUpload
    \/ CommitCreated
    \/ CommitRendered
    \/ CommitEmbedded
    \/ CommitImageAdded
    \/ CommitCopied
    \/ CommitSaved

SpecRaster == Init /\ [][NextRaster]_vars

\* the steps of maskSalaryInfo and checkSalaryInfo after the call
Masking ==
    \/ MaskBytesDone
    \/ MaskBytesFailed
    \/ ExtractLoaded
    \/ ExtractLoadFailed
    \/ ExtractPageDone
    \/ ExtractPageFailed
    \/ ApplyLoaded
    \/ ApplyLoadFailed
    \/ ApplyFontEmbedded
    \/ ApplyFontFailed
    \/ ApplySaved
    \/ ApplySaveFailed

\* SpecMask: maskSalaryInfo and checkSalaryInfo on every document of the
\* model
NextMask ==
    \/ \E file \in PdfFiles, libraries \in BOOLEAN :
           MaskSalaryInfo(file, libraries)
    \/ \E file \in PdfFiles : CheckSalaryInfo(file)
    \/ Masking

SpecMask == Init /\ [][NextMask]_vars

\* SpecUpload: Storage.uploadFile on every file of the model
NextUpload ==
    \/ \E file \in UploadableFiles, maskSalary, isAdminOrAbove \in BOOLEAN :
           UploadFile(file, maskSalary, isAdminOrAbove)
    \/ Masking
    \/ UploadMaskReturned
    \/ UploadMaskThrew
    \/ UploadStored
    \/ UploadStoreFailed
    \/ UploadAttachmentCreated
    \/ UploadAttachmentFailed
    \/ DeleteFileDone
    \/ DeleteFileFailed

SpecUpload == Init /\ [][NextUpload]_vars

\* SpecFind: findSalaryItems on every fragment list of the model
NextFind ==
    \/ /\ scan.pc = "idle"
       /\ \E textItems \in FragmentLists : FindSalaryItems(textItems)
    \/ FindSalaryItemsPass
    \/ FindSalaryItemsReturn

SpecFind == Init /\ [][NextFind]_vars

\* SpecView: sessions with zoom changes, without commits
NextView == Session \/ Zoom

SpecView == Init /\ [][NextView]_vars

\* SpecZoom: sessions on a one-page file with the zoom buttons over the
\* whole range of setZoom, regions drawn at every scale, without commits
NextZoom ==
    \/ OpenMaskingModal(1)
    \/ LoadBytesDone
    \/ LoadDocDone
    \/ \E i \in 1..Len(renders) : RenderGotPage(i)
    \/ \E i \in 1..Len(renders) : RenderDone(i)
    \/ ZoomInAnywhere
    \/ ZoomOutAnywhere
    \/ OnMouseDown(<<0, 0>>)
    \/ OnMouseUp(<<20, 30>>)
    \/ CloseModal

SpecZoom == Init /\ [][NextZoom]_vars

\* SpecOverlap: page and zoom changes issued while earlier renderPage calls
\* are still in flight, on a file of MaxPages pages, the calls resolving in
\* any order
NextOverlap ==
    \/ OpenMaskingModal(MaxPages)
    \/ LoadBytesDone
    \/ LoadDocDone
    \/ \E i \in 1..Len(renders) : RenderGotPage(i)
    \/ \E i \in 1..Len(renders) : RenderFailed(i)
    \/ \E i \in 1..Len(renders) : RenderDone(i)
    \/ PrevPageOverlapping
    \/ NextPageOverlapping
    \/ ZoomInOverlapping
    \/ ZoomOutOverlapping

SpecOverlap == Init /\ [][NextOverlap]_vars

\* SpecBoxes: sessions in which regions of two sizes are drawn from the
\* same corner and removed by clicking their overlay boxes, without commits
NextBoxes ==
    \/ \E f \in Files : OpenMaskingModal(f)
    \/ LoadBytesDone
    \/ LoadDocDone
    \/ \E i \in 1..Len(renders) : RenderGotPage(i)
    \/ \E i \in 1..Len(renders) : RenderDone(i)
    \/ PrevPage
    \/ NextPage
    \/ OnMouseDown(<<0, 0>>)
    \/ \E p \in RasterUpPoints : OnMouseUp(p)
    \/ \E n \in 1..MaxRegions : ClickOverlayBox(n)
    \/ CloseModal

SpecBoxes == Init /\ [][NextBoxes]_vars

\* the continuation of a commit after one of its awaits: each await of a
\* started commit is settled by the event loop, one way or the other
CommitSettles ==
    \/ CommitCreated
    \/ CommitRendered
    \/ CommitRenderFailed
    \/ CommitEmbedded
    \/ CommitBlobNull
    \/ CommitImageAdded
    \/ CommitCopied
    \/ CommitSaved

\* SpecLive: sessions with commits and their failures, the event loop
\* running the continuation of every commit step that can run; no
\* navigation, no removal of regions and no cancel
NextLive ==
    \/ \E f \in Files : OpenMaskingModal(f)
    \/ LoadBytesDone
    \/ LoadDocDone
    \/ \E i \in 1..Len(renders) : RenderGotPage(i)
    \/ \E i \in 1..Len(renders) : RenderDone(i)
    \/ OnMouseDown(<<0, 0>>)
    \/ OnMouseUp(<<20, 30>>)
    \/ ApplyMaskingAndUpload
    \/ CommitSettles

SpecLive == Init /\ [][NextLive]_vars /\ WF_vars(CommitSettles)

\* SpecEdge: containsSalaryInfo called with any sequence of texts
NextEdge ==
    \E text \in EdgeTexts : ContainsSalaryInfo(text)

SpecEdge == Init /\ [][NextEdge]_vars


\* ================================================================ claims
\* the text a text extractor finds on page p of file f
PageText(f, p) == <<f, p>>

\* the text a text extractor finds on a page of an output document: an
\* embedded image carries none, a copied page carries the text of its source
ExtractText(page) ==
    IF page.kind = "image" THEN <<>> ELSE PageText(page.doc, page.page)

\* the pages referenced by a region list
Referenced(regions) == {regions[k].page : k \in 1..Len(regions)}

\* the documents handed to onComplete
Outputs == {delivered[k] : k \in 1..Len(delivered)}

\* C1: every page of the document that a region referenced when the
\* Rasterizing Redactor was invoked is, in the output, a flattened image
\* page with no extractable text, in a finished output and in one being built.
C1_FlattenedPagesCarryNoText ==
    /\ \A d \in Outputs :
         \A p \in Referenced(d.invoked) \cap (1..NumPages(d.name)) :
            /\ p <= Len(d.pages)
            /\ d.pages[p].kind = "image"
            /\ ExtractText(d.pages[p]) = <<>>
    /\ \A p \in 1..Len(commit.newPdfDoc) :
         p \in Referenced(commit.invoked.selectedRegions)
            => ExtractText(commit.newPdfDoc[p]) = <<>>

\* C1 witness: an output of a two-page file in which a referenced page is
\* an image and the other page is a copy
C1_Witness ==
    \E d \in Outputs :
        /\ Len(d.pages) = 2
        /\ \E p \in Referenced(d.invoked) : d.pages[p].kind = "image"
        /\ \E p \in 1..2 : d.pages[p].kind = "copy"

AllBig(regions) ==
    \A k \in 1..Len(regions) :
        regions[k].width >= MinSize /\ regions[k].height >= MinSize

\* C4: fail closed.  A commit that is rendering a page to be flattened
\* either gets the rendered page or aborts with the error shown: no page is
\* added, no output is delivered and the callback is not called.
C4_RenderFailureAborts ==
    [][(commit.pc = "render" /\ commit' # commit)
          => \/ /\ commit'.pc = "toBlob"
                /\ delivered' = delivered
             \/ /\ commit'.pc = "idle"
                /\ alert' = "apply_error"
                /\ delivered' = delivered]_vars

\* C4 witness: a commit has just been aborted in an open session (there the
\* document is held, so only a failed render aborts)
C4_Witness == alert = "apply_error" /\ modal /\ commit.pc = "idle"

\* C5: every region of the session, every region painted by the
\* Rasterizing Redactor and every region of a delivered output has width
\* and height of at least 10.
C5_RegionsAtLeastMinSize ==
    /\ AllBig(state.selectedRegions)
    /\ AllBig(commit.painted)
    /\ \A k \in 1..Len(commit.newPdfDoc) : AllBig(commit.newPdfDoc[k].painted)
    /\ \A d \in Outputs : \A k \in 1..Len(d.pages) : AllBig(d.pages[k].painted)

\* C5 witness: a region that passed the size check at pointer-up reached the
\* Rasterizing Redactor and was painted into a delivered output
C5_Witness ==
    \E d \in Outputs : \E k \in 1..Len(d.pages) : Len(d.pages[k].painted) > 0

\* C6: a step that changes the current page or the scale, or that starts,
\* advances or ends a preview render, leaves the region list as it was.
C6_PageAndZoomKeepRegions ==
    [][(\/ state'.currentPage # state.currentPage
        \/ state'.scale # state.scale
        \/ renders' # renders)
          => state'.selectedRegions = state.selectedRegions]_vars

\* C6 witness: a region recorded on another page and at another scale than
\* the current ones, with no render left in flight
C6_Witness ==
    /\ renders = <<>>
    /\ \E k \in 1..Len(state.selectedRegions) :
          /\ state.selectedRegions[k].page # state.currentPage
          /\ state.selectedRegions[k].scale # state.scale

\* C7: a commit never starts on an empty region list, and the click that is
\* rejected changes nothing of the session: state, modal, controls, commit
\* and deliveries stay as they were.
C7_EmptyCommitRejected ==
    [][/\ (commit.pc = "idle" /\ commit'.pc # "idle")
            => Len(state.selectedRegions) > 0
       /\ alert' = "select_region"
            => /\ state' = state
               /\ modal' = modal /\ modal
               /\ ui' = ui
               /\ commit' = commit
               /\ delivered' = delivered]_vars

\* C7 witness: the rejection has been shown
C7_Witness == alert = "select_region"

\* the regions painted into an output
PaintedCount(pages) ==
    LET RECURSIVE Sum(_)
        Sum(k) == IF k = 0 THEN 0 ELSE Len(pages[k].painted) + Sum(k - 1)
    IN Sum(Len(pages))

\* C8 as claimed: after a delivery the session is closed, the callback was
\* called once, and maskedCount is the number of regions the session held
\* when the commit was invoked, all of them painted into the output.
C8_Claimed ==
    /\ Len(delivered) <= 1
    /\ \A d \in Outputs :
         /\ d.maskedCount = Len(d.invoked)
         /\ d.maskedCount = PaintedCount(d.pages)
    /\ (delivered # <<>> /\ load.pc = "idle")
         => ~modal /\ state = Released(state)

\* C9 as claimed: the step in which a commit fails leaves the session open
\* with the commit control enabled and with the document handle, buffer,
\* file, page, scale and regions it had when the commit was invoked.
C9_Claimed ==
    [][(commit.pc # "idle" /\ alert' = "apply_error")
          => /\ modal'
             /\ ~ui'.applyDisabled
             /\ commit'.pc = "idle"
             /\ Snapshot(state') = commit.invoked]_vars

\* C10 as claimed: while a commit is in flight the session is what it was
\* when the commit was invoked.
C10_Claimed ==
    commit.pc # "idle" => Snapshot(state) = commit.invoked

\* C11 as claimed: while a commit is in flight the commit control of the
\* open session is disabled, so no second applyMaskingAndUpload can start.
C11_Claimed ==
    (commit.pc # "idle" /\ modal) => ui.applyDisabled

\* C12 as claimed: while a commit is in flight the session is open and holds
\* its document handle and its byte buffer: closeModal has not run.
C12_Claimed ==
    commit.pc # "idle"
        => modal /\ state.pdfDoc # 0 /\ state.arrayBuffer # 0

\* the session is closed: no modal, no open in flight, everything released
Closed ==
    /\ ~modal
    /\ load.pc = "idle"
    /\ state.pdfDoc = 0
    /\ state.arrayBuffer = 0
    /\ state.originalFile = 0
    /\ state.selectedRegions = <<>>

C14_Claimed ==
    [][alert' = "load_error"
          => /\ ~modal'
             /\ state'.pdfDoc = 0
             /\ state'.arrayBuffer = 0
             /\ state'.originalFile = 0]_vars

\* C15 as claimed: the open session's document handle, byte buffer, original
\* file and page count come from one file, and the pages of an output, built
\* or delivered, all come from the file the output is named after.
C15_Claimed ==
    /\ modal =>
         /\ state.pdfDoc = state.originalFile
         /\ state.arrayBuffer = state.originalFile
         /\ state.totalPages = NumPages(state.originalFile)
    /\ \A j, k \in 1..Len(commit.newPdfDoc) :
         commit.newPdfDoc[j].doc = commit.newPdfDoc[k].doc
    /\ \A d \in Outputs :
         \A k \in 1..Len(d.pages) :
            d.pages[k].doc = d.name /\ d.pages[k].sizeDoc = d.name

\* the reasons under which fragment k of the scanned list is in the result
ReasonsOf(k) ==
    {scan.itemsToMask[n].reason :
        n \in {m \in 1..Len(scan.itemsToMask) : scan.itemsToMask[m].index = k}}

\* the text holds a run of digits
HasDigitRun(text) == \E k \in 1..Len(text) : text[k] = "num"

\* amount-like as the specification words it: a digit run, and a currency
\* unit or the shape of a bare amount
SpecAmountLike(text) ==
    HasDigitRun(text) /\ (HasMoneyUnit(text) \/ IsLikelyAmount(text))

\* fragment k holds a keyword and matches no pattern, fragment j is another
\* fragment, amount-like, on the same page within the tolerance
KeywordWithAmount(k, j) ==
    /\ k # j
    /\ HasKeyword(scan.textItems[k].text)
    /\ ~MatchesPattern(scan.textItems[k].text)
    /\ SpecAmountLike(scan.textItems[j].text)
    /\ scan.textItems[j].page = scan.textItems[k].page
    /\ Abs(scan.textItems[j].y - scan.textItems[k].y) < RowTolerance

C17_PatternTakesPrecedence ==
    [][/\ (/\ scan.pc = "loop"
           /\ scan.i <= Len(scan.textItems)
           /\ scan.i \notin scan.processedIndices
           /\ MatchesPattern(scan.textItems[scan.i].text))
          => /\ scan'.itemsToMask =
                   Append(scan.itemsToMask,
                          Masked(scan.textItems, scan.i, "pattern_match"))
             /\ scan'.processedIndices = scan.processedIndices \cup {scan.i}
       /\ \A n \in 1..Len(scan.itemsToMask) :
             MatchesPattern(scan.itemsToMask[n].text)
                => scan.itemsToMask[n].reason # "keyword_match"]_vars

\* C17 witness: the single fragment keyword-plus-amount was returned once,
\* tagged pattern_match
C17_Witness ==
    /\ scan.pc = "done"
    /\ scan.textItems = <<[text |-> KeywordAmountText, page |-> 1, y |-> 0]>>
    /\ scan.itemsToMask = <<Masked(scan.textItems, 1, "pattern_match")>>

\* C18: every item of the result is a fragment of the input, and no
\* fragment of the input is in the result twice.
C18_EachFragmentAtMostOnce ==
    /\ \A n \in 1..Len(scan.itemsToMask) :
         /\ scan.itemsToMask[n].index \in 1..Len(scan.textItems)
         /\ scan.itemsToMask[n] =
               Masked(scan.textItems, scan.itemsToMask[n].index,
                      scan.itemsToMask[n].reason)
    /\ \A m, n \in 1..Len(scan.itemsToMask) :
         m # n => scan.itemsToMask[m].index # scan.itemsToMask[n].index

\* C18 witness: the scan has passed a fragment that matches a pattern and
\* that an earlier keyword fragment had claimed as nearby_number
C18_Witness ==
    /\ scan.pc = "done"
    /\ \E m, n \in 1..Len(scan.itemsToMask) :
          /\ scan.itemsToMask[m].reason = "keyword_match"
          /\ scan.itemsToMask[n].reason = "nearby_number"
          /\ scan.itemsToMask[m].index < scan.itemsToMask[n].index
          /\ MatchesPattern(scan.itemsToMask[n].text)

\* the indices a pass tags nearby_number
NewNearby ==
    {scan'.itemsToMask[n].index :
        n \in {m \in (Len(scan.itemsToMask) + 1)..Len(scan'.itemsToMask) :
                  scan'.itemsToMask[m].reason = "nearby_number"}}

\* C19 as claimed: the fragments a pass tags nearby_number are, when the
\* pass claims a keyword fragment, exactly the other unclaimed fragments of
\* its page within the tolerance that are amount-like, and none otherwise.
C19_Claimed ==
    [][(scan.pc = "loop" /\ scan.i <= Len(scan.textItems))
          => NewNearby =
                IF /\ scan.i \notin scan.processedIndices
                   /\ ~MatchesPattern(scan.textItems[scan.i].text)
                   /\ HasKeyword(scan.textItems[scan.i].text)
                THEN {j \in 1..Len(scan.textItems) :
                        /\ j # scan.i
                        /\ j \notin scan.processedIndices
                        /\ scan.textItems[j].page = scan.textItems[scan.i].page
                        /\ Abs(scan.textItems[j].y - scan.textItems[scan.i].y)
                              < RowTolerance
                        /\ SpecAmountLike(scan.textItems[j].text)}
                ELSE {}]_vars

\* C20: the fragments claimed by the scan itself are in the result in
\* increasing index order, and every nearby_number item follows the
\* keyword_match item that claimed it, after the lower-indexed
\* nearby_number items of the same keyword.
C20_DiscoveryOrder ==
    /\ \A m, n \in 1..Len(scan.itemsToMask) :
         (/\ m < n
          /\ scan.itemsToMask[m].reason # "nearby_number"
          /\ scan.itemsToMask[n].reason # "nearby_number")
            => scan.itemsToMask[m].index < scan.itemsToMask[n].index
    /\ \A n \in 1..Len(scan.itemsToMask) :
         scan.itemsToMask[n].reason = "nearby_number"
            => /\ n > 1
               /\ scan.itemsToMask[n - 1].reason # "pattern_match"
               /\ scan.itemsToMask[n - 1].reason = "nearby_number"
                    => scan.itemsToMask[n - 1].index < scan.itemsToMask[n].index

\* C20 witness: a keyword fragment in the middle of the list was returned
\* first, followed by the amount before it and then the amount after it
C20_Witness ==
    /\ scan.pc = "done"
    /\ Len(scan.itemsToMask) = 3
    /\ scan.itemsToMask[1].reason = "keyword_match"
    /\ scan.itemsToMask[1].index = 2
    /\ scan.itemsToMask[2].reason = "nearby_number"
    /\ scan.itemsToMask[2].index = 1
    /\ scan.itemsToMask[3].reason = "nearby_number"
    /\ scan.itemsToMask[3].index = 3

\* ------------------------------------------------- C26, C29, C30: regions
\* the fields of the session other than the region list
SessionFrame(st) ==
    <<st.pdfDoc, st.currentPage, st.totalPages, st.scale, st.originalFile,
      st.arrayBuffer>>

\* C26: removeRegion(index) with a valid index in an open session takes
\* the region at that index out of the list, keeps every other region at
\* its place relative to the others, and leaves the current page, the
\* scale and the document as they were.
C26_RemoveRegionFrame ==
    [][\A index \in 1..MaxRegions :
          RemoveRegion(index) =>
            LET old == state.selectedRegions
                new == state'.selectedRegions
            IN /\ Len(new) = Len(old) - 1
               /\ \A k \in 1..Len(new) :
                     new[k] = IF k < index THEN old[k] ELSE old[k + 1]
               /\ SessionFrame(state') = SessionFrame(state)
               /\ modal']_vars

\* C26 witness: the session a removal of the first of two regions leaves:
\* the region of page 2 is the only one of the list, page 1 is shown, and
\* the commit control is enabled
C26_Witness ==
    /\ modal
    /\ commit.pc = "idle"
    /\ Len(state.selectedRegions) = 1
    /\ state.selectedRegions[1].page = 2
    /\ state.currentPage = 1
    /\ canvas.page = 1
    /\ ~ui.applyDisabled

\* a session is Ready: open, its document loaded, no commit in flight
Ready ==
    /\ modal
    /\ load.pc = "idle"
    /\ state.pdfDoc # 0
    /\ commit.pc = "idle"

\* C29 as claimed: in a Ready session the commit control is disabled
\* exactly when the region list is empty.
C29_Claimed ==
    Ready => (ui.applyDisabled <=> Len(state.selectedRegions) = 0)

\* C30 as claimed: a region added to the list while the canvas shows a
\* preview records the page and the scale of that preview.
C30_Claimed ==
    [][(/\ Len(state'.selectedRegions) = Len(state.selectedRegions) + 1
        /\ canvas # NoCanvas)
          => LET r == state'.selectedRegions[Len(state'.selectedRegions)]
             IN r.page = canvas.page /\ r.scale = canvas.scale]_vars

\* --------------------------------------------- C25: the raster rectangles
\* the flattened pages of the outputs and of the output being built
ImagePages ==
    {pg \in UNION {{d.pages[k] : k \in 1..Len(d.pages)} : d \in Outputs}
              \cup {commit.newPdfDoc[k] : k \in 1..Len(commit.newPdfDoc)} :
        pg.kind = "image"}

\* C25 helper: q is the value v times RenderScale over scale
IsRasterOf(q, v, scale) == q[1] * scale = v * RenderScale * q[2]

\* C25 helper: two regions cover the same rectangle of the native page
SameNative(r1, r2) ==
    /\ r1.x * r2.scale = r2.x * r1.scale
    /\ r1.y * r2.scale = r2.y * r1.scale
    /\ r1.width * r2.scale = r2.width * r1.scale
    /\ r1.height * r2.scale = r2.height * r1.scale

\* the regions painted on flattened pages, each with its rectangle
PaintedRects ==
    UNION {{<<pg.painted[k], pg.filled[k]>> : k \in 1..Len(pg.painted)} :
              pg \in ImagePages}

\* C25: every region painted on a flattened page was filled as the
\* rectangle whose x, y, width and height are the region's times
\* (2.0 / the region's recorded scale); two regions that cover the same
\* rectangle of the native page were filled as the same rectangle, whatever
\* the scale of the session was when the commit was invoked.
C25_RasterRectangles ==
    /\ \A pg \in ImagePages : Len(pg.filled) = Len(pg.painted)
    /\ \A pr \in PaintedRects :
          /\ IsRasterOf(pr[2].x, pr[1].x, pr[1].scale)
          /\ IsRasterOf(pr[2].y, pr[1].y, pr[1].scale)
          /\ IsRasterOf(pr[2].width, pr[1].width, pr[1].scale)
          /\ IsRasterOf(pr[2].height, pr[1].height, pr[1].scale)
    /\ \A p1, p2 \in PaintedRects :
          SameNative(p1[1], p2[1]) => p1[2] = p2[2]

\* C25 witness: a delivered page on which two regions drawn at different
\* zoom levels over the same native rectangle were filled as one raster
\* rectangle, 32 raster pixels wide
C25_Witness ==
    \E d \in Outputs :
        /\ Len(d.pages[1].painted) = 2
        /\ d.pages[1].painted[1].scale # d.pages[1].painted[2].scale
        /\ SameNative(d.pages[1].painted[1], d.pages[1].painted[2])
        /\ d.pages[1].filled[1] = d.pages[1].filled[2]
        /\ d.pages[1].filled[1].width = <<32, 1>>

\* ------------------------------------ C21..C24: the automatic masking
\* no fragment matches a pattern or holds a keyword
NoMatch(textItems) ==
    \A k \in 1..Len(textItems) :
        ~MatchesPattern(textItems[k].text) /\ ~HasKeyword(textItems[k].text)

\* the rectangles on the pages of a saved document
RectCount(saved) ==
    LET RECURSIVE Sum(_)
        Sum(k) == IF k = 0 THEN 0 ELSE Len(saved[k].rects) + Sum(k - 1)
    IN Sum(Len(saved))

\* the extraction of the call in flight is complete
Extracted_All == mask.pc # "idle" /\ mask.pageNum > Len(mask.file.pages)

\* C21: a result of checkSalaryInfo has hasSalaryInfo exactly when count > 0,
\* and count is the number of matched fragments; a result of maskSalaryInfo
\* has masked exactly when maskedCount > 0, and maskedCount is the number
\* of matched fragments and of cover rectangles in the returned file.  When
\* no fragment of the extracted text matches a pattern or a keyword, the
\* call returns without error: hasSalaryInfo = false and count = 0, or the
\* file it was given, masked = false and maskedCount = 0, and applyMasking
\* was not called.
C21_EmptyResultIsNoError ==
    /\ mask.pc \in {"load", "embedFont", "save"} => Len(mask.itemsToMask) > 0
    /\ (Extracted_All /\ NoMatch(mask.allItems))
          => /\ mask.pc = "returned"
             /\ mask.error = "none"
             /\ mask.queue = <<>> /\ mask.rects = <<>>
    /\ (mask.pc = "returned" /\ mask.fn = "checkSalaryInfo")
          => /\ mask.result.hasSalaryInfo <=> mask.result.count > 0
             /\ mask.result.count = Len(mask.itemsToMask)
             /\ Extracted_All
                   => (mask.result.count = 0 <=> NoMatch(mask.allItems))
    /\ (mask.pc = "returned" /\ mask.fn = "maskSalaryInfo")
          => /\ mask.result.masked <=> mask.result.maskedCount > 0
             /\ mask.result.maskedCount = Len(mask.itemsToMask)
             /\ mask.result.maskedCount = RectCount(mask.result.file.out)
             /\ mask.result.maskedCount = 0 <=> NoMatch(mask.allItems)
             /\ ~mask.result.masked => mask.result.file = mask.file

\* C21 witness: maskSalaryInfo returned the file it was given for a
\* document that has text on two pages, none of it about salaries
C21_Witness ==
    /\ mask.pc = "returned"
    /\ mask.fn = "maskSalaryInfo"
    /\ Len(mask.allItems) = 2
    /\ mask.result = [file |-> mask.file, masked |-> FALSE, maskedCount |-> 0]

\* C22 as claimed: no call ends with the error of a single page that could
\* not be parsed.
C22_Claimed == mask.error # "page"

\* C23: a failure to embed the font or to draw the glyph for an item finds
\* the rectangle of the item drawn, does not end the call and takes no
\* rectangle away; the document saved has a cover rectangle for every item,
\* on all pages, whatever glyphs failed, and the file is returned.
C23_GlyphFailureTolerated ==
    [][/\ mask.pc = "embedFont"
            => /\ Len(mask.rects) = Len(mask.glyphs) + 1
               /\ mask'.pc \in {"embedFont", "save"}
               /\ SubSeq(mask'.rects, 1, Len(mask.rects)) = mask.rects
       /\ mask.pc = "save"
            => /\ Len(mask.rects) = Len(mask.itemsToMask)
               /\ Len(mask.glyphs) = Len(mask.rects)
       /\ (mask.pc = "save" /\ mask'.pc = "returned")
            => /\ RectCount(mask'.result.file.out) = Len(mask.itemsToMask)
               /\ \A k \in 1..Len(mask.file.pages) :
                     Len(mask'.result.file.out[k].rects) =
                        Len(ItemsOfPage(mask.itemsToMask, k))]_vars

\* C23 witness: a file was returned in which the first item of page 1 has
\* its rectangle without the glyph, and page 2 has its rectangles too
C23_Witness ==
    /\ mask.pc = "returned"
    /\ mask.fn = "maskSalaryInfo"
    /\ mask.result.masked
    /\ Len(mask.result.file.out) = 2
    /\ Len(mask.result.file.out[1].rects) = 2
    /\ mask.result.file.out[1].glyphs[1] = FALSE
    /\ Len(mask.result.file.out[2].rects) > 0

\* C24: the j-th rectangle drawn is the one of the j-th matched fragment
\* in page order: with x, y, w, h of the fragment and H the height of its
\* page, its width is max(w + 4, 30), its height is max(h + 4, 14), its left
\* edge is x - 2 and its bottom edge is (H - y - h) - 2.
C24_CoverRectangle ==
    \A j \in 1..Len(mask.rects) :
        LET item == mask.queue[j]
            rect == mask.rects[j].rect
            H == PageHeight(item.page)
        IN /\ mask.rects[j].page = item.page
           /\ rect.width >= item.width + 4 /\ rect.width >= 30
           /\ rect.width = item.width + 4 \/ rect.width = 30
           /\ rect.height >= item.height + 4 /\ rect.height >= 14
           /\ rect.height = item.height + 4 \/ rect.height = 14
           /\ rect.x = item.x - 2
           /\ rect.y = (H - item.y - item.height) - 2

\* C24 witness: a wide fragment got a rectangle of its size plus the
\* margin, and a short one the minimum rectangle
C24_Witness ==
    /\ \E j \in 1..Len(mask.rects) :
          mask.rects[j].rect.width = 44 /\ mask.rects[j].rect.height = 16
    /\ \E j \in 1..Len(mask.rects) :
          /\ mask.rects[j].rect.width = 30 /\ mask.rects[j].rect.height = 14
          /\ mask.queue[j].width = 8

\* ------------------------------------------ C27, C28: Storage.uploadFile
\* C27: when maskSalaryInfo throws, uploadFile goes on to upload the file
\* it was given, unmasked; when it returns a masked file, that file is
\* uploaded; the blob stored is the file chosen, and a successful call
\* reports wasMasked = false and maskedCount = 0 for the former and
\* wasMasked = true for the latter.
C27_MaskingFailureUploadsOriginal ==
    [][/\ (upload.pc = "mask" /\ mask.pc = "threw" /\ upload' # upload)
            => /\ upload'.pc = "upload"
               /\ upload'.fileToUpload = upload.file
               /\ ~upload'.wasMasked /\ upload'.maskedCount = 0
       /\ (upload.pc = "mask" /\ mask.pc = "returned" /\ upload' # upload
             /\ mask.result.masked)
            => /\ upload'.pc = "upload"
               /\ upload'.fileToUpload = mask.result.file
               /\ upload'.fileToUpload.out # <<>>
               /\ upload'.wasMasked
       /\ (upload.pc = "upload" /\ upload'.pc = "createAttachment")
            => [path |-> upload.path, file |-> upload.fileToUpload]
                  \in store'.blobs
       /\ (upload'.pc = "done" /\ upload'.result.success)
            => /\ upload'.result.wasMasked = upload.wasMasked
               /\ upload'.result.maskedCount = upload.maskedCount
               /\ upload.wasMasked <=> upload.fileToUpload.out # <<>>
               /\ ~upload.wasMasked
                     => /\ upload.fileToUpload = upload.file
                        /\ upload.maskedCount = 0]_vars

\* C27 witness: a call with maskSalary on a PDF with salary information
\* succeeded with wasMasked = false: the masking had thrown and the blob
\* stored is the original
C27_Witness ==
    /\ upload.pc = "done"
    /\ upload.result.success
    /\ ~upload.result.wasMasked
    /\ upload.maskSalary
    /\ upload.file.isPdf
    /\ ~NoMatch(ExtractedPage(upload.file.pages[1], 1))
    /\ [path |-> upload.path, file |-> upload.file] \in store.blobs

\* C28 as claimed: when no call is in flight, every blob of the bucket has
\* an attachment row pointing to it.
C28_Claimed ==
    upload.pc \in {"idle", "done"}
        => \A b \in store.blobs : b.path \in store.attachments

\* ------------------------------------------------------------------ C34
\* a session is loaded once its document is parsed and its modal is shown
Loaded == modal /\ state.pdfDoc # 0

\* C34: in every reachable state of a loaded session the current page is
\* within 1..totalPages, every render in flight is of a page within
\* 1..totalPages (goToPage with a target outside changes nothing and starts
\* no render), and every region's recorded page is within 1..totalPages
C34_PageInRange ==
    Loaded =>
        /\ state.currentPage \in 1..state.totalPages
        /\ \A i \in 1..Len(renders) : renders[i].pageNum \in 1..state.totalPages
        /\ \A k \in 1..Len(state.selectedRegions) :
               state.selectedRegions[k].page \in 1..state.totalPages

\* a loaded session on its last page, of two, with a region on that page and
\* the next button still enabled: its click is goToPage(totalPages + 1)
C34_Witness ==
    /\ Loaded
    /\ state.totalPages = 2
    /\ state.currentPage = state.totalPages
    /\ ~ui.nextDisabled
    /\ renders = <<>>
    /\ \E k \in 1..Len(state.selectedRegions) :
           state.selectedRegions[k].page = state.totalPages

\* ------------------------------------------------------------------ C35
\* the scales the zoom buttons can reach: 0.5, 0.75, ... 3.0
ScaleRange == MinScale..MaxScale

\* C35: in every reachable state the session's scale lies in [0.5, 3.0], as
\* does the scale recorded in every region (so none is zero) and the scale
\* of every page drawn on the canvas; the scale changes only by one step of
\* 0.25 and only together with a new render, so that setZoom with a target
\* below 0.5 or above 3 changes nothing and starts no render
C35_ScaleInRange ==
    /\ [](/\ state.scale \in ScaleRange
          /\ \A k \in 1..Len(state.selectedRegions) :
                 /\ state.selectedRegions[k].scale \in ScaleRange
                 /\ state.selectedRegions[k].scale # 0
          /\ canvas # NoCanvas => canvas.scale \in ScaleRange)
    /\ [][/\ state'.scale # state.scale =>
                 /\ Abs(state'.scale - state.scale) = ScaleStep
                 /\ Len(renders') = Len(renders) + 1
          /\ (modal /\ renders' # renders /\ Len(renders') > Len(renders)) =>
                 state'.scale \in ScaleRange]_vars

\* a session zoomed out to 0.5, where the next zoomOut click is
\* setZoom(0.25), holding a region recorded at 3.0 and one recorded at 0.5
C35_Witness ==
    /\ Loaded
    /\ state.scale = MinScale
    /\ \E k \in 1..Len(state.selectedRegions) :
           state.selectedRegions[k].scale = MaxScale
    /\ \E k \in 1..Len(state.selectedRegions) :
           state.selectedRegions[k].scale = MinScale

\* ------------------------------------------------------------------ C33
\* C33, as claimed: every session opens clean, on page 1 with an empty
\* region list and no drag in progress, whatever the state of the session
\* before it was when it closed
C33_Claimed ==
    [][(~modal /\ modal') =>
           /\ state'.currentPage = 1
           /\ state'.selectedRegions = <<>>
           /\ ~state'.isDrawing]_vars

\* ------------------------------------------------------------------ C32
\* C32, as claimed: the completion callback is invoked only by the commit
\* of a session whose modal is still shown, never by a commit whose session
\* the operator has cancelled in the meantime
C32_Claimed ==
    [][Len(delivered') > Len(delivered) => modal]_vars

\* ------------------------------------------------------------------ C31
\* C31, as claimed: whenever no preview render is in flight in a loaded
\* session, the canvas shows the session's current page at the session's
\* scale, also after page and zoom changes issued while an earlier render
\* had not completed
C31_Claimed ==
    (Loaded /\ renders = <<>>) => canvas = Sized(state.currentPage, state.scale)

\* ------------------------------------------------------------------ C36
\* C36, as claimed: the index embedded in every overlay box is the index of
\* the region that box depicts, so that a click on the box removes exactly
\* that region, also when two regions of a page share their top-left corner
C36_Claimed ==
    modal =>
        \A n \in 1..Len(ui.boxes) :
            /\ ui.boxes[n].globalIdx \in 1..Len(state.selectedRegions)
            /\ state.selectedRegions[ui.boxes[n].globalIdx] = ui.boxes[n].region

\* ------------------------------------------------------------------ C37
\* a commit has resolved: the session is closed and the result delivered,
\* or the error is shown and the commit control is enabled again
Resolved ==
    \/ ~modal /\ Len(delivered) > 0
    \/ modal /\ alert = "apply_error" /\ ~ui.applyDisabled

\* C37, as claimed: every commit that is started eventually resolves, also
\* when converting a rendered page canvas to PNG bytes fails
C37_Claimed ==
    (commit.pc # "idle") ~> Resolved

\* ------------------------------------------------------------------ C38
\* C38, as claimed: the cover rectangle drawn for a matched fragment
\* contains the fragment's bounding box in native page space, the box
\* [tx, tx + width] x [ty, ty + height], where the extractor computed
\* x = tx and y = pageHeight - ty from the fragment's text origin (tx, ty)
C38_Claimed ==
    \A j \in 1..Len(mask.rects) :
        LET item == mask.queue[j]
            rect == mask.rects[j].rect
            tx == item.x
            ty == PageHeight(item.page) - item.y
        IN /\ rect.x <= tx
           /\ rect.x + rect.width >= tx + item.width
           /\ rect.y <= ty
           /\ rect.y + rect.height >= ty + item.height

\* ------------------------------------------------------------------ C39
\* what containsSalaryInfo returns for a text when every pattern's
\* lastIndex is 0
FirstCall(text) == ContainsFrom(text, 1, NoEdge.lastIndex).result

\* C39, as claimed: containsSalaryInfo returns for a text what it returns
\* for that text on a first call, whichever texts it was called with before
C39_Claimed ==
    edge.called => edge.result = FirstCall(edge.text)

====
